---------------------------- MODULE Spec2Model ----------------------------
(***************************************************************************)
(* A model of the Google Trends scraper of src/src/main.js: the response   *)
(* codec (parseResponse), the retrying transport (makeRequest), the        *)
(* discovery call (getExploreWidgets), the four widget fetches, the record *)
(* assembly (processSearchTerm) and the sequential item loop (main).       *)
(*                                                                         *)
(* Strings are sequences of one-character strings.  A response body may    *)
(* hold, besides characters, one element that names a complete JSON text   *)
(* (a name in DOMAIN Docs): JSONParse decodes that element to the value    *)
(* Docs gives it, and rejects every other sequence.                        *)
(***************************************************************************)
EXTENDS Integers, Sequences, FiniteSets, TLC

VARIABLES
    \* ---- the run's input (main.js 398-410), fixed after Init
    config,             \* input.geo, the effective time range, input.category
    itemsToProcess,     \* the item list built by main (426-445)
    maxItems,           \* input.maxItems
    maxRequestRetries,  \* input.maxRequestRetries
    \* ---- main's loop (458-486)
    i,                  \* 1-based index of the item in progress (0 before the first)
    pc,                 \* the position of the single thread of control
    successCount,       \* main.js 458
    sink,               \* the dataset Actor.pushData appends to
    exitCode,           \* the exit code of the process in a set, {} while it runs
    \* ---- processSearchTerm's locals (313-391)
    query,              \* searchTerm and the effective geo, time range, category
    stage,              \* which request of the item is being made
    widgets,            \* the discovery result of the current item
    interestOverTime, geoData, relatedTopics, relatedQueries,
    \* ---- makeRequest's frame (97-135)
    attempt,            \* the for loop's counter
    ret,                \* what makeRequest returned or threw
    backoffDelay,       \* the delay of the pending setTimeout, in ms
    inflight,           \* HTTP requests issued and not yet answered
    \* ---- history of the run, read by the properties only
    made,               \* HTTP attempts issued by the current makeRequest call
    fails,              \* how many of them failed
    lastReply,          \* the backend's answer to the latest attempt of the call
    deviations,         \* how many answers (of the backend, of the dataset) so
                        \* far were not the nominal one, counted up to
                        \* MaxDeviations
    itemStatus,         \* per item: PENDING, RESOLVING, FETCHING, EMITTED, SKIPPED
    skipReason,         \* per item: none, invalid, resolver, exception, nodata,
                        \* push
    delayAfter,         \* per item: the inter-item delay slept after it, in ms
    fetched,            \* per item: the widget stages requested for it
    calls,              \* makeRequest calls entered for the item in progress
    attempts,           \* HTTP attempts issued for the item in progress
    \* ---- the codec on its own (specification SpecCodec)
    body,               \* a response body
    parsed,             \* parseResponse(body), or NotRun
    \* ---- the data functions on their own (specification SpecFun)
    arg,                \* the function applied and its arguments
    out,                \* what it returned, or NotRun
    \* ---- the widget functions run together (specification SpecPar)
    frames,             \* per widget function: where it stands, its attempt
                        \* counter, the requests it made, what it returned
    \* ---- the response listener of the browser variant (specification
    \* SpecCapture)
    responses,          \* per widget response of the page: pending, reading
                        \* (the listener awaits its text) or handled
    capturedData        \* the listener's capturedData object

inputVars == <<config, itemsToProcess, maxItems, maxRequestRetries>>
loopVars == <<i, pc, successCount, sink, exitCode>>
itemVars == <<query, stage, widgets, interestOverTime, geoData, relatedTopics,
              relatedQueries>>
callVars == <<attempt, ret, backoffDelay, inflight>>
historyVars == <<made, fails, lastReply, deviations, itemStatus, skipReason,
                 delayAfter, fetched, calls, attempts>>
mainVars == <<inputVars, loopVars, itemVars, callVars, historyVars>>
codecVars == <<body, parsed>>
funVars == <<arg, out, frames>>
capVars == <<responses, capturedData>>
vars == <<mainVars, codecVars, funVars, capVars>>

---------------------------------------------------------------------------
(* Bounds of the model. *)

\* the longest item list an input gives
MaxItemCount == 2
\* the largest maxRequestRetries an input gives
MaxRetries == 2
\* how many answers in a run of several items may differ from the nominal one
MaxDeviations == 2
\* the values of input.maxRequestRetries examined: the input is taken as it
\* is given (408), so 0 and a negative number are among them
RetryInputs == -1..MaxRetries
\* the largest attempt number and maxRetries the catch block is examined with
MaxAttemptNo == 3
\* the most widgets a discovery result examined on its own lists
MaxWidgets == 3
\* the most search terms, and the most start URLs, of an input examined on
\* its own
MaxTerms == 2
MaxUrls == 1
\* the longest run of whitespace put before a body
MaxLead == 1
\* the most ranked lists a related-searches payload holds
MaxRanked == 2

(* Constants of the program. *)

\* makeRequest's backoff per attempt after a detected block, in ms
BlockedBackoffMs == 5000
\* makeRequest's backoff per attempt after any other failure, in ms
PlainBackoffMs == 2000
\* processSearchTerm's delay between two widget fetches, in ms
InterFetchDelayMs == 500
\* main's delay between two items, in ms
InterItemDelayMs == 2000

---------------------------------------------------------------------------
(* JavaScript values, as far as the program reads them. *)

Undefined == [k |-> "undefined"]
JNull == [k |-> "null"]
JStr(s) == [k |-> "str", v |-> s]
JNum(n) == [k |-> "num", v |-> n]
JNaN == [k |-> "nan"]
JArr(s) == [k |-> "arr", v |-> s]
JObj(f) == [k |-> "obj", v |-> f]
JBool(b) == [k |-> "bool", v |-> b]

Nullish(v) == v.k \in {"undefined", "null"}

\* ToBoolean, the test of  x || y  and  !x
Truthy(v) ==
    CASE v.k \in {"undefined", "null"} -> FALSE
      [] v.k = "nan" -> FALSE
      [] v.k = "str" -> v.v # ""
      [] v.k = "num" -> v.v # 0
      [] v.k = "bool" -> v.v
      [] OTHER -> TRUE

\* v.f for a v that is not nullish (the caller raises TypeError otherwise)
Prop(v, f) ==
    IF v.k = "obj" /\ f \in DOMAIN v.v THEN v.v[f] ELSE Undefined

\* v?.f
OptProp(v, f) == IF Nullish(v) THEN Undefined ELSE Prop(v, f)

\* a || b
OrElse(a, b) == IF Truthy(a) THEN a ELSE b

IsArr(v) == v.k = "arr"
EmptyArr == JArr(<<>>)

---------------------------------------------------------------------------
(* Strings. *)

\* the characters String.prototype.trim removes, among those of the model;
\* JSON.parse skips the same three
WS == {" ", "\n", "\t"}

RECURSIVE TrimStart(_)
TrimStart(s) ==
    IF s # <<>> /\ Head(s) \in WS THEN TrimStart(Tail(s)) ELSE s

RECURSIVE TrimEnd(_)
TrimEnd(s) ==
    IF s # <<>> /\ s[Len(s)] \in WS THEN TrimEnd(SubSeq(s, 1, Len(s) - 1)) ELSE s

\* String.prototype.trim
Trim(s) == TrimEnd(TrimStart(s))

\* String.prototype.startsWith
StartsWith(s, p) == Len(s) >= Len(p) /\ SubSeq(s, 1, Len(p)) = p

\* String.prototype.slice(n), n >= 0
Slice(s, n) == SubSeq(s, n + 1, Len(s))


---------------------------------------------------------------------------
(* The JSON texts of the model: the name of each text and the value        *)
(* JSON.parse gives for it.                                                *)

\* a widget descriptor of the discovery response
MkWidget(id, token, request) ==
    JObj([id |-> JStr(id), token |-> JStr(token), request |-> request])

\* a widget descriptor that carries no token
MkWidgetNoToken(id, request) ==
    JObj([id |-> JStr(id), request |-> request])

\* widget.request of each widget, an opaque payload; the geo map's carries
\* the resolution
ReqPayload(name) == JObj([restriction |-> JStr(name)])
ReqGeo(name, resolution) ==
    JObj([restriction |-> JStr(name), resolution |-> JStr(resolution)])

RankedItem(text, formattedValue) ==
    JObj([query |-> JStr(text), formattedValue |-> JStr(formattedValue)])

Docs ==
    [ Null    |-> JNull,
      Obj     |-> JObj([status |-> JStr("ok")]),
      WNone   |-> JObj([widgets |-> EmptyArr]),
      WAll    |-> JObj([widgets |-> JArr(<<
                     MkWidget("TIMESERIES", "tok-ts", ReqPayload("ts")),
                     MkWidget("GEO_MAP", "tok-geo", ReqGeo("geo", "COUNTRY")),
                     MkWidget("RELATED_TOPICS", "tok-rt", ReqPayload("rt")),
                     MkWidget("RELATED_QUERIES", "tok-rq", ReqPayload("rq")) >>)]),
      WPart   |-> JObj([widgets |-> JArr(<<
                     MkWidget("OTHER", "tok-x", ReqPayload("x")),
                     MkWidget("GEO_MAP", "tok-geo2", ReqGeo("geo2", "REGION")),
                     MkWidgetNoToken("TIMESERIES", ReqPayload("ts0")),
                     MkWidget("TIMESERIES", "tok-ts2", ReqPayload("ts2")),
                     MkWidget("RELATED_QUERIES", "tok-rq2", ReqPayload("rq2")) >>)]),
      Time    |-> JObj([default |-> JObj([timelineData |->
                     JArr(<< JObj([time |-> JStr("1700000000"), formattedValue |-> JStr("53")]) >>)])]),
      TimeBad |-> JObj([default |-> JObj([timelineData |-> JStr("n/a")])]),
      Geo     |-> JObj([default |-> JObj([geoMapData |->
                     JArr(<< JObj([geoCode |-> JStr("US-CA"), formattedValue |-> JStr("100")]) >>)])]),
      Rel     |-> JObj([default |-> JObj([rankedList |-> JArr(<<
                     JObj([rankedKeyword |-> JArr(<< RankedItem("latte", "100") >>)]),
                     JObj([rankedKeyword |-> JArr(<< RankedItem("cold brew", "+300%") >>)]) >>)])]),
      RelQ    |-> JObj([default |-> JObj([rankedList |-> JArr(<<
                     JObj([rankedKeyword |-> JArr(<< RankedItem("coffee shop", "100") >>)]),
                     JObj([rankedKeyword |-> JArr(<< RankedItem("iced coffee", "Breakout") >>)]) >>)])]) ]

DocNames == DOMAIN Docs

---------------------------------------------------------------------------
(* ResponseCodec: parseResponse, src/src/main.js 39-54. *)

\* the words makeRequest's catch block looks for in error.message (121-122)
BlockWords == {"HTML response", "blocked"}

\* the words of BlockWords that a text holds
WordsIn(text) == {text[n] : n \in DOMAIN text} \cap BlockWords

\* JSON.parse: leading and trailing whitespace is skipped; what is left must
\* be one complete JSON text. The SyntaxError for a text whose first
\* character begins no JSON value quotes the text in its message
\* ("Unexpected token 'b', "blocked" is not valid JSON"); the one for an
\* empty text and the one for characters after a JSON value quote nothing.
\* words is what the message holds of BlockWords.
JSONParse(text) ==
    LET t == Trim(text)
    IN  IF Len(t) = 1 /\ t[1] \in DocNames
        THEN [ok |-> TRUE, val |-> Docs[t[1]], jsonParsed |-> TRUE]
        ELSE [ok |-> FALSE, err |-> "SyntaxError", jsonParsed |-> TRUE,
              words |-> IF t # <<>> /\ t[1] \notin DocNames THEN WordsIn(t)
                        ELSE {}]

\* the three literals parseResponse tests, in the order of its tests:
\* ")]}'\\n" is )]}' backslash n (six characters), ")]}'" the bare prefix,
\* ")]}'\n" is )]}' and a newline character
PrefixBackslashN == <<")", "]", "}", "'", "\\", "n">>
PrefixBare == <<")", "]", "}", "'">>
PrefixNewline == <<")", "]", "}", "'", "\n">>

\* the mutant of parseResponse that tests the body untrimmed
parseResponse_NoTrim(b) ==
    IF StartsWith(b, <<"<">>)
    THEN [ok |-> FALSE, err |-> "HTML", jsonParsed |-> FALSE,
          words |-> BlockWords]
    ELSE JSONParse(IF StartsWith(b, PrefixBackslashN) THEN Slice(b, 5)
                   ELSE IF StartsWith(b, PrefixBare) THEN Slice(b, 4)
                   ELSE IF StartsWith(b, PrefixNewline) THEN Slice(b, 5)
                   ELSE b)

\* parseResponse (39-54); its own error (42) says 'Received HTML response
\* instead of JSON - request may be blocked'
parseResponse(b) ==
    IF StartsWith(Trim(b), <<"<">>)
    THEN [ok |-> FALSE, err |-> "HTML", jsonParsed |-> FALSE,
          words |-> BlockWords]
    ELSE LET cleanBody ==
                 IF StartsWith(b, PrefixBackslashN) THEN Slice(b, 5)
                 ELSE IF StartsWith(b, PrefixBare) THEN Slice(b, 4)
                 ELSE IF StartsWith(b, PrefixNewline) THEN Slice(b, 5)
                 ELSE b
         IN  JSONParse(cleanBody)

---------------------------------------------------------------------------
(* The codec on its own: a body is drawn, parseResponse is applied to it.  *)

NotRun == [ok |-> FALSE, err |-> "NotRun", jsonParsed |-> FALSE]

\* the sequences over S of length at most n
RECURSIVE SeqsUpTo(_, _)
SeqsUpTo(S, n) ==
    IF n = 0 THEN {<<>>}
    ELSE LET shorter == SeqsUpTo(S, n - 1)
         IN  shorter \cup {Append(q, c) : q \in shorter, c \in S}

CodecLeads == SeqsUpTo(WS, MaxLead)
CodecPrefixes == {<<>>, PrefixBackslashN, PrefixBare, PrefixNewline}
CodecTails ==
    {<<d>> : d \in DocNames}
        \cup { <<>>, <<"<">>, <<"<", "Obj">>, <<"<", "h", "t", "m", "l", ">">>,
               <<"x">>, <<"n", "Obj">>, <<"Obj", "\n">>, <<"Obj", "x">> }
CodecBodies ==
    {lead \o prefix \o tail :
        lead \in CodecLeads, prefix \in CodecPrefixes, tail \in CodecTails}

\* the state of the item loop while the codec is examined on its own
NoReply == [status |-> 0, body |-> <<>>]
NoQuery == [searchTerm |-> Undefined, geo |-> Undefined, timeRange |-> Undefined,
            category |-> Undefined]

MainIdle ==
    /\ config = NoQuery /\ itemsToProcess = <<>>
    /\ maxItems = 0 /\ maxRequestRetries = 0
    /\ i = 0 /\ pc = "codec" /\ successCount = 0 /\ sink = <<>>
    /\ exitCode = {}
    /\ query = NoQuery /\ stage = "none" /\ widgets = Undefined
    /\ interestOverTime = Undefined /\ geoData = Undefined
    /\ relatedTopics = Undefined /\ relatedQueries = Undefined
    /\ attempt = 0 /\ ret = Undefined /\ backoffDelay = 0 /\ inflight = {}
    /\ made = 0 /\ fails = 0 /\ lastReply = NoReply /\ deviations = 0
    /\ itemStatus = <<>> /\ skipReason = <<>>
    /\ delayAfter = <<>> /\ fetched = <<>>
    /\ calls = 0 /\ attempts = 0

\* no data function is under examination
NoArg == [fn |-> "none"]

\* no widget function has been called
NoFrames == <<>>

\* no page is open
NoCapture ==
    /\ responses = <<>>
    /\ capturedData = <<>>

InitCodec ==
    /\ MainIdle
    /\ body \in CodecBodies
    /\ parsed = NotRun
    /\ arg = NoArg /\ out = NotRun /\ frames = NoFrames
    /\ NoCapture

codec_Parse ==
    /\ pc = "codec"
    /\ parsed = NotRun
    /\ parsed' = parseResponse(body)
    /\ UNCHANGED <<body, mainVars, funVars, capVars>>

NextCodec == codec_Parse

SpecCodec == InitCodec /\ [][NextCodec]_vars

CodecRan == parsed # NotRun

\* the first character of b that is not whitespace is '<'
FirstNonWsIsLt(b) == TrimStart(b) # <<>> /\ Head(TrimStart(b)) = "<"

\* C4: a body made of one of the three accepted prefixes followed by a JSON
\* document decodes to that document.
C4_AcceptedPrefixDecodes ==
    \A p \in {PrefixNewline, PrefixBackslashN, PrefixBare} : \A d \in DocNames :
        (CodecRan /\ body = p \o <<d>>) => (parsed.ok /\ parsed.val = Docs[d])

\* C5: for a body whose first non-whitespace character is '<', parseResponse
\* fails with the blocked-response error and JSON.parse is never called.
C5_HtmlIsBlockedUndecoded ==
    (CodecRan /\ FirstNonWsIsLt(body)) =>
        (~parsed.ok /\ parsed.err = "HTML" /\ ~parsed.jsonParsed)

\* C5's case: an HTML body behind leading whitespace, and one '<' followed by
\* a decodable JSON text, have been through parseResponse
C5_Witness ==
    /\ CodecRan
    /\ body = <<" ", "<", "Obj">>
    /\ parsed.err = "HTML"

---------------------------------------------------------------------------
(* RetryingTransport: makeRequest, src/src/main.js 77-135. *)

\* what gotScraping or parseResponse throws: the kind of error, the status
\* of error.response, and what error.message holds of BlockWords
ErrNetwork == [kind |-> "Network", status |-> 0, words |-> {}]
ErrHttp(code) == [kind |-> "HTTP", status |-> code, words |-> {}]
ErrParse(kind, words) == [kind |-> kind, status |-> 0, words |-> words]
\* the rejection of gotScraping without a response, with message msg
ErrTransport(msg) == [kind |-> "Network", status |-> 0, words |-> WordsIn(msg)]
\* data.widgets, data.default, ... on null or undefined
ErrType == [kind |-> "TypeError", status |-> 0]

\* the answers of the backend to one HTTP attempt: no answer (status 0, and
\* in the place of the body the message of the error gotScraping rejects
\* with), an error status, or 200 with a body
Reply(status, b) == [status |-> status, body |-> b]
Ok200(doc) == Reply(200, PrefixNewline \o <<doc>>)

\* the answer with the payload the request asks for
Nominal(st) ==
    CASE st = "explore" -> Ok200("WAll")
      [] st = "multiline" -> Ok200("Time")
      [] st = "comparedgeo" -> Ok200("Geo")
      [] st \in {"topics", "queries"} -> Ok200("Rel")

\* the other answers: transport failures, error statuses, an HTML page, a
\* body behind the backslash-n prefix, and well-formed bodies with another
\* payload
Deviant(st) ==
    {Reply(c, <<>>) : c \in {0, 403, 429, 500}}
        \cup { Reply(200, <<"<", "h", "t", "m", "l", ">">>),
               Reply(200, PrefixBackslashN \o <<"WAll">>),
               Ok200("Null"), Ok200("Obj") }
        \cup ( CASE st = "explore" -> {Ok200("WNone"), Ok200("WPart")}
                 [] st = "multiline" -> {Ok200("TimeBad")}
                 [] OTHER -> {} )

\* the mutant of AttemptOutcome that returns the body as it came
AttemptOutcome_Undecoded(reply) ==
    IF reply.status = 0 THEN [ok |-> FALSE, err |-> ErrTransport(reply.body)]
    ELSE IF reply.status # 200 THEN [ok |-> FALSE, err |-> ErrHttp(reply.status)]
    ELSE LET r == parseResponse(reply.body)
         IN  IF r.ok THEN [ok |-> TRUE, val |-> [k |-> "text", v |-> reply.body]]
             ELSE [ok |-> FALSE, err |-> ErrParse(r.err, r.words)]

\* one pass through the try block (98-119): gotScraping, then parseResponse
AttemptOutcome(reply) ==
    IF reply.status = 0 THEN [ok |-> FALSE, err |-> ErrTransport(reply.body)]
    ELSE IF reply.status # 200 THEN [ok |-> FALSE, err |-> ErrHttp(reply.status)]
    ELSE LET r == parseResponse(reply.body)
         IN  IF r.ok THEN [ok |-> TRUE, val |-> r.val]
             ELSE [ok |-> FALSE, err |-> ErrParse(r.err, r.words)]

\* isBlocked (121-124), whatever the error is
isBlocked(error) ==
    \/ "HTML response" \in error.words
    \/ "blocked" \in error.words
    \/ error.status = 429
    \/ error.status = 403

\* the delay before the next attempt (127)
Delay(error, n) ==
    IF isBlocked(error) THEN BlockedBackoffMs * n ELSE PlainBackoffMs * n

\* the mutant of LoopTest of a loop that tests after its body
LoopTest_AfterBody(n, maxRetries) == n = 1 \/ n <= maxRetries

\* the test of makeRequest's for loop (97)
LoopTest(n, maxRetries) == n <= maxRetries

\* the mutant of MayRetry that waits after the last failure too
MayRetry_Always(n, maxRetries) == TRUE

\* the mutant of MayRetry that gives up after the first failure
MayRetry_Never(n, maxRetries) == FALSE

\* whether the catch block retries (126)
MayRetry(n, maxRetries) == n < maxRetries

---------------------------------------------------------------------------
(* The widget functions: src/src/main.js 140-285. *)

KnownStages == <<"multiline", "comparedgeo", "topics", "queries">>
WidgetStages == {KnownStages[n] : n \in 1..4}

\* the widget id each fetch looks for (353-356)
WidgetId(st) ==
    CASE st = "multiline" -> "TIMESERIES"
      [] st = "comparedgeo" -> "GEO_MAP"
      [] st = "topics" -> "RELATED_TOPICS"
      [] st = "queries" -> "RELATED_QUERIES"

\* the data endpoint of each fetch (180, 207, 244)
Endpoint(st) ==
    CASE st = "explore" -> "/api/explore"
      [] st = "multiline" -> "/api/widgetdata/multiline"
      [] st = "comparedgeo" -> "/api/widgetdata/comparedgeo"
      [] st \in {"topics", "queries"} -> "/api/widgetdata/relatedsearches"

\* the list each widget payload carries under default (189, 216, 253)
ListField(st) ==
    CASE st = "multiline" -> "timelineData"
      [] st = "comparedgeo" -> "geoMapData"
      [] st \in {"topics", "queries"} -> "rankedList"

\* Array.prototype.find(w => w.id === id) on an array of objects
RECURSIVE FindFrom(_, _, _)
FindFrom(ws, id, n) ==
    IF n > Len(ws) THEN Undefined
    ELSE IF Prop(ws[n], "id") = JStr(id) THEN ws[n]
    ELSE FindFrom(ws, id, n + 1)

\* the mutant of FindWidget that takes the first widget of the response
FindWidget_First(ws, id) ==
    IF IsArr(ws) /\ Len(ws.v) > 0 THEN ws.v[1] ELSE Undefined

FindWidget(ws, id) ==
    IF IsArr(ws) THEN FindFrom(ws.v, id, 1) ELSE Undefined

\* the mutant of Fetchable without the test of the widget
Fetchable_Always(widget) == TRUE

\* the mutant of Fetchable in which no widget is ever fetched
Fetchable_Never(widget) == FALSE

\* !widget || !widget.token (175, 202, 239), negated
Fetchable(widget) ==
    Truthy(widget) /\ Truthy(Prop(widget, "token"))

\* getExploreWidgets after makeRequest returned data (162-168); data.widgets
\* on undefined or null raises TypeError
ExploreResult(data) ==
    IF Nullish(data) THEN [ok |-> FALSE, err |-> ErrType]
    ELSE LET ws == Prop(data, "widgets")
         IN  IF ~Truthy(ws) \/ (IsArr(ws) /\ Len(ws.v) = 0)
             THEN [ok |-> TRUE, val |-> EmptyArr]
             ELSE [ok |-> TRUE, val |-> ws]

\* data.default?.<field> || []  inside the try block (189, 216, 253)
DefaultField(data, field) ==
    IF Nullish(data) THEN [ok |-> FALSE, err |-> ErrType]
    ELSE [ok |-> TRUE,
          val |-> OrElse(OptProp(Prop(data, "default"), field), EmptyArr)]

\* getInterestOverTime from makeRequest's outcome on (186-195)
getInterestOverTime(r) ==
    IF ~r.ok THEN EmptyArr
    ELSE LET f == DefaultField(r.val, "timelineData")
         IN  IF f.ok THEN f.val ELSE EmptyArr

GeoBuckets(subregion, city, country) ==
    JObj([interestBySubregion |-> subregion, interestByCity |-> city,
          interestBy |-> country])
NoGeo == GeoBuckets(EmptyArr, EmptyArr, EmptyArr)

\* the mutant of getGeoData that reads the hint of the widget only, not of
\* its request
getGeoData_IgnoreRequest(r, widget) ==
    IF ~r.ok THEN NoGeo
    ELSE LET f == DefaultField(r.val, "geoMapData")
             resolution == Prop(widget, "resolution")
         IN  IF ~f.ok THEN NoGeo
             ELSE IF resolution \in {JStr("provinces"), JStr("REGION")}
                  THEN GeoBuckets(f.val, EmptyArr, EmptyArr)
             ELSE IF resolution \in {JStr("cities"), JStr("CITY")}
                  THEN GeoBuckets(EmptyArr, f.val, EmptyArr)
             ELSE GeoBuckets(EmptyArr, EmptyArr, f.val)

\* the mutant of getGeoData that fills the country bucket whatever the hint
getGeoData_AlsoCountry(r, widget) ==
    IF ~r.ok THEN NoGeo
    ELSE LET f == DefaultField(r.val, "geoMapData")
             resolution ==
                 OrElse(Prop(widget, "resolution"),
                        OptProp(Prop(widget, "request"), "resolution"))
         IN  IF ~f.ok THEN NoGeo
             ELSE IF resolution \in {JStr("provinces"), JStr("REGION")}
                  THEN GeoBuckets(f.val, EmptyArr, f.val)
             ELSE IF resolution \in {JStr("cities"), JStr("CITY")}
                  THEN GeoBuckets(EmptyArr, f.val, f.val)
             ELSE GeoBuckets(EmptyArr, EmptyArr, f.val)

\* getGeoData from makeRequest's outcome on (213-232)
getGeoData(r, widget) ==
    IF ~r.ok THEN NoGeo
    ELSE LET f == DefaultField(r.val, "geoMapData")
             resolution ==
                 OrElse(Prop(widget, "resolution"),
                        OptProp(Prop(widget, "request"), "resolution"))
         IN  IF ~f.ok THEN NoGeo
             ELSE IF resolution \in {JStr("provinces"), JStr("REGION")}
                  THEN GeoBuckets(f.val, EmptyArr, EmptyArr)
             ELSE IF resolution \in {JStr("cities"), JStr("CITY")}
                  THEN GeoBuckets(EmptyArr, f.val, EmptyArr)
             ELSE GeoBuckets(EmptyArr, EmptyArr, f.val)

\* the characters of the formattedValue texts of the model
CharsOf ==
    ("100" :> <<"1", "0", "0">>) @@ ("53" :> <<"5", "3">>)
        @@ ("+300%" :> <<"+", "3", "0", "0", "%">>)
        @@ ("Breakout" :> <<"B", "r", "e", "a", "k", "o", "u", "t">>)
        @@ ("BREAKOUT" :> <<"B", "R", "E", "A", "K", "O", "U", "T">>)
        @@ ("" :> <<>>)

UpperCase == <<"A", "B", "E", "K", "O", "R", "T", "U">>
LowerCase == <<"a", "b", "e", "k", "o", "r", "t", "u">>

\* String.prototype.toLowerCase on the letters of the model
ToLowerCase(chars) ==
    [n \in 1..Len(chars) |->
        IF \E m \in 1..Len(UpperCase) : UpperCase[m] = chars[n]
        THEN LowerCase[CHOOSE m \in 1..Len(UpperCase) : UpperCase[m] = chars[n]]
        ELSE chars[n]]

\* String.prototype.includes for one character
Includes(chars, c) == \E n \in 1..Len(chars) : chars[n] = c

\* the mutant of RisingMark that compares with 'Breakout' as written
RisingMark_CaseSensitive(item) ==
    LET fv == Prop(item, "formattedValue")
    IN  IF Nullish(fv) THEN "false"
        ELSE IF fv.k # "str" THEN "throw"
        ELSE IF \/ Includes(CharsOf[fv.v], "%")
                \/ CharsOf[fv.v] = <<"B", "r", "e", "a", "k", "o", "u", "t">>
             THEN "true"
        ELSE "false"

\* the callback of items.some (266-269) on one item: "true", "false", or
\* "throw" when formattedValue is neither a string nor nullish
RisingMark(item) ==
    LET fv == Prop(item, "formattedValue")
    IN  IF Nullish(fv) THEN "false"
        ELSE IF fv.k # "str" THEN "throw"
        ELSE IF \/ Includes(CharsOf[fv.v], "%")
                \/ ToLowerCase(CharsOf[fv.v]) = <<"b", "r", "e", "a", "k", "o", "u", "t">>
             THEN "true"
        ELSE "false"

\* Array.prototype.some with that callback, from item n on
RECURSIVE SomeRising(_, _)
SomeRising(items, n) ==
    IF n > Len(items) THEN "false"
    ELSE IF RisingMark(items[n]) = "false" THEN SomeRising(items, n + 1)
    ELSE RisingMark(items[n])

\* { ...item, hasData: item.hasData !== undefined ? item.hasData : true }
WithHasData(item) ==
    JObj([f \in DOMAIN item.v \cup {"hasData"} |->
            IF f # "hasData" THEN item.v[f]
            ELSE IF "hasData" \in DOMAIN item.v /\ item.v["hasData"] # Undefined
                 THEN item.v["hasData"]
            ELSE JBool(TRUE)])

\* the mutant of ClassifyFrom that keeps the first list of each bucket
RECURSIVE ClassifyFrom_FirstWins(_, _, _, _)
ClassifyFrom_FirstWins(lists, n, top, rising) ==
    IF n > Len(lists) THEN [ok |-> TRUE, top |-> top, rising |-> rising]
    ELSE LET list == lists[n]
             rk == IF Nullish(list) THEN Undefined ELSE Prop(list, "rankedKeyword")
         IN  IF Nullish(list) THEN [ok |-> FALSE]
             ELSE IF ~Truthy(rk) THEN ClassifyFrom_FirstWins(lists, n + 1, top, rising)
             ELSE IF ~IsArr(rk) \/ (\E m \in 1..Len(rk.v) : rk.v[m].k # "obj")
                  THEN [ok |-> FALSE]
             ELSE LET items == [m \in 1..Len(rk.v) |-> WithHasData(rk.v[m])]
                      mark == SomeRising(items, 1)
                  IN  IF mark = "throw" THEN [ok |-> FALSE]
                      ELSE IF mark = "true"
                           THEN ClassifyFrom_FirstWins(lists, n + 1, top,
                                    IF rising = EmptyArr THEN JArr(items) ELSE rising)
                      ELSE ClassifyFrom_FirstWins(lists, n + 1,
                                    IF top = EmptyArr THEN JArr(items) ELSE top, rising)

\* the loop over rankedList (258-277) from list n on; "throw" stands for the
\* TypeError of a list or an item that is null, a rankedKeyword that is no
\* array, or a formattedValue that is no string
RECURSIVE ClassifyFrom(_, _, _, _)
ClassifyFrom(lists, n, top, rising) ==
    IF n > Len(lists) THEN [ok |-> TRUE, top |-> top, rising |-> rising]
    ELSE LET list == lists[n]
             rk == IF Nullish(list) THEN Undefined ELSE Prop(list, "rankedKeyword")
         IN  IF Nullish(list) THEN [ok |-> FALSE]
             ELSE IF ~Truthy(rk) THEN ClassifyFrom(lists, n + 1, top, rising)
             ELSE IF ~IsArr(rk) \/ (\E m \in 1..Len(rk.v) : rk.v[m].k # "obj")
                  THEN [ok |-> FALSE]
             ELSE LET items == [m \in 1..Len(rk.v) |-> WithHasData(rk.v[m])]
                      mark == SomeRising(items, 1)
                  IN  IF mark = "throw" THEN [ok |-> FALSE]
                      ELSE IF mark = "true"
                           THEN ClassifyFrom(lists, n + 1, top, JArr(items))
                      ELSE ClassifyFrom(lists, n + 1, JArr(items), rising)

Related(top, rising) == JObj([top |-> top, rising |-> rising])
NoRelated == Related(EmptyArr, EmptyArr)

\* getRelatedSearches from makeRequest's outcome on (250-284); a rankedList
\* that is a string is iterated by character and yields nothing, one that is
\* no array and no string is not iterable
getRelatedSearches(r) ==
    IF ~r.ok THEN NoRelated
    ELSE LET f == DefaultField(r.val, "rankedList")
         IN  IF ~f.ok THEN NoRelated
             ELSE IF f.val.k = "str" THEN NoRelated
             ELSE IF ~IsArr(f.val) THEN NoRelated
             ELSE LET c == ClassifyFrom(f.val.v, 1, EmptyArr, EmptyArr)
                  IN  IF c.ok THEN Related(c.top, c.rising) ELSE NoRelated

---------------------------------------------------------------------------
(* QueryNormalizer and RecordAssembler: src/src/main.js 290-391. *)

\* an input item: its text, whether it starts with 'http', whether new URL
\* accepts it, and the q, geo, date and cat parameters of its query string
\* (null when absent, as URLSearchParams.get gives them)
KeywordItem(text) ==
    [text |-> text, http |-> FALSE, parses |-> FALSE,
     q |-> JNull, geo |-> JNull, date |-> JNull, cat |-> JNull]
UrlItem(text, q, geo, date, cat) ==
    [text |-> text, http |-> TRUE, parses |-> TRUE,
     q |-> q, geo |-> geo, date |-> date, cat |-> cat]

\* parseInt(text, 10) on the cat texts of the model
IntOf == ("0" :> JNum(0)) @@ ("7" :> JNum(7)) @@ ("x" :> JNaN)

\* parseGoogleTrendsUrl (290-308)
parseGoogleTrendsUrl(item) ==
    IF ~item.parses THEN JNull
    ELSE JObj([searchTerm |-> OrElse(item.q, JStr("")),
               geo |-> OrElse(item.geo, JStr("")),
               timeRange |-> OrElse(item.date, JStr("today 12-m")),
               category |-> IntOf[OrElse(item.cat, JStr("0")).v]])

\* processSearchTerm's resolution of its input (314-328)
ResolveQuery(item, cfg) ==
    LET parsedUrl == IF item.http THEN parseGoogleTrendsUrl(item) ELSE JNull
    IN  IF item.http /\ Truthy(parsedUrl)
        THEN [searchTerm |-> Prop(parsedUrl, "searchTerm"),
              geo |-> OrElse(Prop(parsedUrl, "geo"), cfg.geo),
              timeRange |-> OrElse(Prop(parsedUrl, "timeRange"), cfg.timeRange),
              category |-> OrElse(Prop(parsedUrl, "category"), cfg.category)]
        ELSE [searchTerm |-> JStr(item.text), geo |-> cfg.geo,
              timeRange |-> cfg.timeRange, category |-> cfg.category]

\* main's effectiveTimeRange (453)
EffectiveTimeRange(customTimeRange, timeRange) == OrElse(customTimeRange, timeRange)

\* the keys of TIME_RANGES (11-22) other than ''
TimeRangeNames ==
    {"now 1-H", "now 4-H", "now 1-d", "now 7-d", "today 1-m", "today 3-m",
     "today 12-m", "today 5-y", "all"}

\* TIME_RANGES[timeRange]
TIME_RANGES(timeRange) ==
    IF timeRange.k # "str" THEN Undefined
    ELSE IF timeRange.v \in TimeRangeNames THEN timeRange
    ELSE IF timeRange.v = "" THEN JStr("today 12-m")
    ELSE Undefined

\* the payload of the discovery request (141-151)
ExploreReq(q) ==
    JObj([comparisonItem |-> JArr(<< JObj([
              keyword |-> q.searchTerm,
              geo |-> OrElse(q.geo, JStr("")),
              time |-> OrElse(TIME_RANGES(q.timeRange), JStr("today 12-m"))]) >>),
          category |-> OrElse(q.category, JNum(0)),
          property |-> JStr("")])

\* JSON.stringify: the JSON text of a value
Stringify(v) == [json |-> v]

\* the result object (373-387)
BuildResult(item, q, timeline, geo, topics, queries) ==
    [inputUrlOrTerm |-> item.text,
     searchTerm |-> q.searchTerm,
     geo |-> OrElse(q.geo, JStr("Worldwide")),
     timeRange |-> OrElse(q.timeRange, JStr("today 12-m")),
     interestOverTime_timelineData |-> OrElse(timeline, EmptyArr),
     interestOverTime_averages |-> EmptyArr,
     interestBySubregion |-> OrElse(Prop(geo, "interestBySubregion"), EmptyArr),
     interestByCity |-> OrElse(Prop(geo, "interestByCity"), EmptyArr),
     interestBy |-> OrElse(Prop(geo, "interestBy"), EmptyArr),
     relatedTopics_top |-> OrElse(Prop(topics, "top"), EmptyArr),
     relatedTopics_rising |-> OrElse(Prop(topics, "rising"), EmptyArr),
     relatedQueries_top |-> OrElse(Prop(queries, "top"), EmptyArr),
     relatedQueries_rising |-> OrElse(Prop(queries, "rising"), EmptyArr)]

---------------------------------------------------------------------------
(* The data functions on their own: arguments are drawn, the function is   *)
(* applied to them.                                                        *)

\* the resolution hints a widget or its request may carry (absent is
\* Undefined)
GeoHints ==
    {Undefined, JStr("REGION"), JStr("CITY"), JStr("COUNTRY"),
     JStr("provinces"), JStr("cities"), JStr("")}

\* a GEO_MAP widget with a hint of its own and a hint in its request
GeoWidget(own, inRequest) ==
    JObj([id |-> JStr("GEO_MAP"), token |-> JStr("tok-geo"),
          resolution |-> own,
          request |-> JObj([restriction |-> JStr("geo"), resolution |-> inRequest])])

\* what makeRequest gives a widget function: a payload or a failure
Returned(v) == [ok |-> TRUE, val |-> v]
Raised(e) == [ok |-> FALSE, err |-> e]

GeoArgs ==
    {[fn |-> "getGeoData", r |-> r, widget |-> GeoWidget(own, inRequest)] :
        r \in {Returned(Docs["Geo"]), Returned(Docs["Obj"]), Raised(ErrNetwork)},
        own \in GeoHints, inRequest \in GeoHints}

\* rankedKeyword items: formattedValue is a string or absent
Ranked(text, formattedValue) ==
    JObj([query |-> JStr(text), formattedValue |-> JStr(formattedValue)])
RankedBare(text) == JObj([query |-> JStr(text)])

\* the ranked lists of the model: objects with a rankedKeyword array, and one
\* without
RankedLists ==
    { JObj([rankedKeyword |-> JArr(items)]) :
        items \in { <<>>,
                    << Ranked("latte", "100") >>,
                    << Ranked("mocha", "53"), Ranked("latte", "100") >>,
                    << Ranked("cold brew", "+300%") >>,
                    << Ranked("oat milk", "Breakout") >>,
                    << Ranked("matcha", "BREAKOUT") >>,
                    << RankedBare("decaf") >>,
                    << Ranked("latte", "100"), Ranked("cold brew", "+300%") >>,
                    << RankedBare("decaf"), Ranked("oat milk", "Breakout") >> } }
        \cup { JObj([title |-> JStr("no keywords")]) }

RelatedArgs ==
    {[fn |-> "getRelatedSearches",
      r |-> Returned(JObj([default |-> JObj([rankedList |-> JArr(lists)])]))] :
        lists \in SeqsUpTo(RankedLists, MaxRanked)}

\* trends URLs with and without each of the geo, date and cat parameters
UrlInputs ==
    {UrlItem("https://trends.google.com/trends/explore", q, geo, date, cat) :
        q \in {JStr("tea"), JNull},
        geo \in {JNull, JStr("US")},
        date \in {JNull, JStr("now 7-d")},
        cat \in {JNull, JStr("0"), JStr("7")}}

\* the global settings processSearchTerm is called with (465-467)
GlobalSettings ==
    {[geo |-> JStr(geo), timeRange |-> JStr(timeRange), category |-> JNum(category)] :
        geo \in {"", "DE"}, timeRange \in {"today 5-y", "now 1-d"},
        category \in {0, 3}}

ResolveArgs ==
    {[fn |-> "processSearchTerm", item |-> item, cfg |-> cfg] :
        item \in UrlInputs \cup {KeywordItem("coffee")}, cfg \in GlobalSettings}

\* the time settings of an input (404-405): each absent (''), a key of
\* TIME_RANGES, or a range of dates
TimeSettings == {"", "now 7-d", "today 5-y", "2024-01-01 2024-06-30"}

\* main called with a keyword item and the time settings of its input
TimeArgs ==
    {[fn |-> "main", item |-> KeywordItem("coffee"), geo |-> JStr(geo),
      timeRange |-> JStr(timeRange), customTimeRange |-> JStr(customTimeRange),
      category |-> JNum(0)] :
        geo \in {"", "US"}, timeRange \in TimeSettings,
        customTimeRange \in TimeSettings}

\* getRelatedSearches on each document of the model, computed once
RelatedByDoc == [d \in DocNames |-> getRelatedSearches(Returned(Docs[d]))]

\* getRelatedSearches(r), read from RelatedByDoc when r carries a document of
\* the model
RelatedOf(r) ==
    IF r.ok /\ (\E d \in DocNames : Docs[d] = r.val)
    THEN RelatedByDoc[CHOOSE d \in DocNames : Docs[d] = r.val]
    ELSE getRelatedSearches(r)

\* the widget function of a stage, from makeRequest's outcome on
Section(st, r, widget) ==
    CASE st = "multiline" -> getInterestOverTime(r)
      [] st = "comparedgeo" -> getGeoData(r, widget)
      [] st \in {"topics", "queries"} -> RelatedOf(r)

\* what a widget function returns without a request (177, 204, 241)
EmptySection(st) ==
    CASE st = "multiline" -> EmptyArr
      [] st = "comparedgeo" -> NoGeo
      [] st \in {"topics", "queries"} -> NoRelated

\* the widgets of the discovery responses the fetches are examined with: known
\* ids, an id no fetch looks for, and a TIMESERIES widget without token
WidgetPool ==
    { MkWidget("TIMESERIES", "tok-ts", ReqPayload("ts")),
      MkWidget("GEO_MAP", "tok-geo", ReqGeo("geo", "REGION")),
      MkWidget("RELATED_QUERIES", "tok-rq", ReqPayload("rq")),
      MkWidget("OTHER", "tok-x", ReqPayload("x")),
      MkWidgetNoToken("TIMESERIES", ReqPayload("ts0")) }

\* what makeRequest gives each widget function: the decoded nominal payload
\* for all four, or a failure for all four
AnswersNominal == [st \in WidgetStages |-> AttemptOutcome(Nominal(st))]
AnswersFailed == [st \in WidgetStages |-> [ok |-> FALSE, err |-> ErrNetwork]]

\* processSearchTerm after the discovery call, on a keyword item
WidgetArgs ==
    {[fn |-> "processSearchTerm_widgets", item |-> KeywordItem("coffee"),
      cfg |-> [geo |-> JStr("US"), timeRange |-> JStr(""), category |-> JNum(0)],
      widgets |-> JArr(ws), answers |-> a] :
        ws \in SeqsUpTo(WidgetPool, MaxWidgets),
        a \in {AnswersNominal, AnswersFailed}}

\* processSearchTerm 347-390 from the discovery result on: null without
\* widgets, otherwise the widget requests made and the record built
AfterDiscovery(item, q, ws, answers) ==
    IF Len(ws.v) = 0 THEN [requests |-> {}, record |-> JNull]
    ELSE LET widgetOf(st) == FindWidget(ws, WidgetId(st))
             sec(st) == IF Fetchable(widgetOf(st))
                        THEN Section(st, answers[st], widgetOf(st))
                        ELSE EmptySection(st)
         IN  [requests |->
                  {[endpoint |-> Endpoint(st),
                    req |-> Stringify(Prop(widgetOf(st), "request")),
                    token |-> Prop(widgetOf(st), "token")] :
                       st \in {t \in WidgetStages : Fetchable(widgetOf(t))}},
              record |-> BuildResult(item, q, sec("multiline"), sec("comparedgeo"),
                                     sec("topics"), sec("queries"))]

\* failures whose message holds 'blocked' (a rejection of gotScraping that
\* says so; a body that is no JSON and begins with the word, bare or behind
\* the prefix), and a body that holds the word where no message quotes it
WordyReplies ==
    { Reply(0, <<"blocked">>), Reply(200, <<"blocked">>),
      Reply(200, PrefixNewline \o <<"blocked">>), Reply(200, <<"Obj", "blocked">>) }

\* one pass through makeRequest's loop body: attempt n of maxRetries (the
\* loop keeps n <= maxRetries, 97), and the backend's answer to it
CatchArgs ==
    LET All == {[fn |-> "makeRequest", reply |-> reply, n |-> n, maxRetries |-> m] :
                   reply \in {Nominal("explore")} \cup Deviant("explore")
                                \cup WordyReplies,
                   n \in 1..MaxAttemptNo, m \in 1..MaxAttemptNo}
    IN  {a \in All : a.n <= a.maxRetries}

\* String.prototype.split(c)
RECURSIVE Split(_, _)
Split(s, c) ==
    IF ~Includes(s, c) THEN <<s>>
    ELSE LET p == CHOOSE q \in DOMAIN s : s[q] = c /\ \A r \in 1..(q - 1) : s[r] # c
         IN  <<SubSeq(s, 1, p - 1)>> \o Split(SubSeq(s, p + 1, Len(s)), c)

NonEmptyText(t) == t # <<>>

\* the mutant of SplitTerm that keeps the segments as they are cut
SplitTerm_Untrimmed(term) == SelectSeq(Split(term, ","), NonEmptyText)

\* term.split(',').map(t => t.trim()).filter(t => t)  (432)
SplitTerm(term) ==
    LET parts == Split(term, ",")
    IN  SelectSeq([n \in DOMAIN parts |-> Trim(parts[n])], NonEmptyText)

\* what one search term pushes (431-436)
ItemsOfTerm(term, isMultiple) ==
    IF isMultiple /\ Includes(term, ",") THEN SplitTerm(term) ELSE <<term>>

\* what one start URL pushes (441-444): the string itself or the url of the
\* object, when it is not empty
ItemsOfUrl(urlObj) ==
    LET url == IF urlObj.k = "str" THEN urlObj ELSE Prop(urlObj, "url")
    IN  IF url.k = "str" /\ url.v # <<>> THEN <<url.v>> ELSE <<>>

\* the sequences of a sequence, one after the other
RECURSIVE Flatten(_)
Flatten(ss) == IF ss = <<>> THEN <<>> ELSE Head(ss) \o Flatten(Tail(ss))

\* main 426-445: itemsToProcess from the input
BuildItems(searchTerms, startUrls, isMultiple) ==
    Flatten([n \in DOMAIN searchTerms |-> ItemsOfTerm(searchTerms[n], isMultiple)])
        \o Flatten([n \in DOMAIN startUrls |-> ItemsOfUrl(startUrls[n])])

\* the search terms of the inputs examined, as sequences of characters
TermPool ==
    { <<>>, <<"a">>, <<" ", "a">>, <<"a", " ", "b">>, <<"a", ",", "b">>,
      <<" ", "a", " ", ",", "b", " ">>, <<",">>, <<"a", ",", ",", "b">> }

\* the start URLs of the inputs examined: a string, an object with url, an
\* object without, an empty string
UrlPool ==
    { JStr(<<"u">>), JObj([url |-> JStr(<<"v">>)]),
      JObj([name |-> JStr(<<"w">>)]), JStr(<<>>) }

InputArgs ==
    {[fn |-> "main_items", searchTerms |-> ts, startUrls |-> us, isMultiple |-> m] :
        ts \in SeqsUpTo(TermPool, MaxTerms), us \in SeqsUpTo(UrlPool, MaxUrls),
        m \in BOOLEAN}

FunArgs ==
    GeoArgs \cup RelatedArgs \cup ResolveArgs \cup TimeArgs \cup CatchArgs
        \cup WidgetArgs \cup InputArgs

InitFun ==
    /\ MainIdle
    /\ body = <<>> /\ parsed = NotRun
    /\ arg \in FunArgs
    /\ out = NotRun /\ frames = NoFrames
    /\ NoCapture

fun_getGeoData ==
    /\ arg.fn = "getGeoData" /\ out = NotRun
    /\ out' = Returned(getGeoData(arg.r, arg.widget))
    /\ UNCHANGED <<arg, frames, mainVars, codecVars, capVars>>

fun_getRelatedSearches ==
    /\ arg.fn = "getRelatedSearches" /\ out = NotRun
    /\ out' = Returned(getRelatedSearches(arg.r))
    /\ UNCHANGED <<arg, frames, mainVars, codecVars, capVars>>

\* processSearchTerm 314-328: the query descriptor of an input
fun_ResolveQuery ==
    /\ arg.fn = "processSearchTerm" /\ out = NotRun
    /\ out' = Returned(ResolveQuery(arg.item, arg.cfg))
    /\ UNCHANGED <<arg, frames, mainVars, codecVars, capVars>>

\* main 453 and 463-470, processSearchTerm 314-345 and 373-378: the time of
\* the discovery request of an item and the timeRange of its record
fun_main_TimeRange ==
    /\ arg.fn = "main" /\ out = NotRun
    /\ LET cfg == [geo |-> arg.geo,
                   timeRange |-> EffectiveTimeRange(arg.customTimeRange, arg.timeRange),
                   category |-> arg.category]
           q == ResolveQuery(arg.item, cfg)
       IN  out' = Returned(
               [time |-> Prop(Prop(ExploreReq(q), "comparisonItem").v[1], "time"),
                timeRange |-> BuildResult(arg.item, q, EmptyArr, NoGeo, NoRelated,
                                          NoRelated).timeRange])
    /\ UNCHANGED <<arg, frames, mainVars, codecVars, capVars>>

\* makeRequest 98-133: the loop body at attempt n; whether the attempt
\* failed, whether the catch block retries and the delay it sleeps before
fun_makeRequest_Catch ==
    /\ arg.fn = "makeRequest" /\ out = NotRun
    /\ LET o == AttemptOutcome(arg.reply)
           retry == ~o.ok /\ MayRetry(arg.n, arg.maxRetries)
       IN  out' = Returned([failed |-> ~o.ok, retry |-> retry,
                            delay |-> IF retry THEN Delay(o.err, arg.n) ELSE 0])
    /\ UNCHANGED <<arg, frames, mainVars, codecVars, capVars>>

\* processSearchTerm 347-390 on a discovery result and the outcomes of the
\* widget calls
fun_processSearchTerm_Widgets ==
    /\ arg.fn = "processSearchTerm_widgets" /\ out = NotRun
    /\ out' = Returned(AfterDiscovery(arg.item, ResolveQuery(arg.item, arg.cfg),
                                      arg.widgets, arg.answers))
    /\ UNCHANGED <<arg, frames, mainVars, codecVars, capVars>>

\* main 426-445: the list of items is built from the input
fun_main_BuildItems ==
    /\ arg.fn = "main_items" /\ out = NotRun
    /\ out' = Returned(BuildItems(arg.searchTerms, arg.startUrls, arg.isMultiple))
    /\ UNCHANGED <<arg, frames, mainVars, codecVars, capVars>>

NextFun ==
    \/ fun_getGeoData
    \/ fun_getRelatedSearches
    \/ fun_ResolveQuery
    \/ fun_main_TimeRange
    \/ fun_makeRequest_Catch
    \/ fun_processSearchTerm_Widgets
    \/ fun_main_BuildItems

SpecFun == InitFun /\ [][NextFun]_vars

---------------------------------------------------------------------------
(* The widget functions run together: processSearchTerm of                 *)
(* src/unnamed/part_001 (240-296) calls the four of them in Promise.all;   *)
(* their steps interleave at every await.                                  *)

\* parseResponse of part_001 (27-36): no test for HTML
par_parseResponse(b) ==
    JSONParse(IF StartsWith(b, PrefixBackslashN) THEN Slice(b, 5)
              ELSE IF StartsWith(b, PrefixBare) THEN Slice(b, 4)
              ELSE IF StartsWith(b, PrefixNewline) THEN Slice(b, 5)
              ELSE b)

\* one pass through the try block of part_001's makeRequest (51-61)
par_AttemptOutcome(reply) ==
    IF reply.status = 0 THEN [ok |-> FALSE, err |-> ErrNetwork]
    ELSE IF reply.status # 200 THEN [ok |-> FALSE, err |-> ErrHttp(reply.status)]
    ELSE LET r == par_parseResponse(reply.body)
         IN  IF r.ok THEN [ok |-> TRUE, val |-> r.val]
             ELSE [ok |-> FALSE, err |-> ErrParse(r.err, r.words)]

\* what a widget function of part_001 returns without a request (104, 125,
\* 156): getInterestOverTime returns null
par_EmptySection(st) == IF st = "multiline" THEN JNull ELSE EmptySection(st)

\* the answer of the backend that fails an attempt: a page of HTML
HtmlReply == Reply(200, <<"<", "h", "t", "m", "l", ">">>)

\* the answers to the requests of one widget function, in the order it makes
\* them: failing the first f attempts, nominal afterwards
Script(st, f, maxRetries) ==
    [n \in 1..maxRetries |-> IF n <= f THEN HtmlReply ELSE Nominal(st)]

\* the discovery results the widget functions are run on
ParWidgets == {Prop(Docs["WAll"], "widgets"), Prop(Docs["WPart"], "widgets")}

\* The widget functions are called only after the discovery call returned
\* widgets (258-265), which takes a request, so maxRetries is 1 at least:
\* with less, getExploreWidgets reads widgets of undefined (97) and
\* processSearchTerm rejects before line 267.
ParArgs ==
    UNION {
        {[fn |-> "processSearchTerm_parallel", item |-> KeywordItem("coffee"),
          cfg |-> [geo |-> JStr("US"), timeRange |-> JStr(""), category |-> JNum(0)],
          widgets |-> ws, maxRetries |-> R,
          script |-> [st \in WidgetStages |-> Script(st, f[st], R)]] :
             ws \in ParWidgets, f \in [WidgetStages -> 0..R]} :
        R \in 1..MaxRetries}

Frame(pos, n, m, val) == [pc |-> pos, attempt |-> n, made |-> m, val |-> val]

InitPar ==
    /\ MainIdle
    /\ body = <<>> /\ parsed = NotRun
    /\ arg \in ParArgs
    /\ out = NotRun
    /\ frames = [st \in WidgetStages |-> Frame("idle", 0, 0, Undefined)]
    /\ NoCapture

ParWidget(st) == FindWidget(arg.widgets, WidgetId(st))

\* makeRequest of the function of st settles with r, its value (58) or the
\* failure it throws (67); the function that awaits it (112, 133, 164) has
\* not resumed yet
par_Settle(st, r) ==
    frames' = [frames EXCEPT ![st] = Frame("settled", 0, @.made, r)]

\* Promise.all's argument list (273-278) calls the four functions in order,
\* each running up to its first await, before anything else runs
par_CalledBefore(st) ==
    \E n \in 1..Len(KnownStages) :
        /\ KnownStages[n] = st
        /\ \A m \in 1..(n - 1) : frames[KnownStages[m]].pc # "idle"

par_AllCalled == \A st \in WidgetStages : frames[st].pc # "idle"

\* makeRequest's loop test at attempt n (49): the request is issued, or the
\* loop ends and makeRequest returns undefined
par_LoopTest(st, n) ==
    IF n <= arg.maxRetries
    THEN frames' = [frames EXCEPT ![st] = Frame("await", n, @.made + 1, Undefined)]
    ELSE par_Settle(st, Returned(Undefined))

\* a widget function is called (104-112, 125-133, 156-164)
par_Call(st) ==
    /\ frames[st].pc = "idle"
    /\ par_CalledBefore(st)
    /\ IF Fetchable(ParWidget(st))
       THEN par_LoopTest(st, 1)
       ELSE frames' = [frames EXCEPT ![st] = Frame("done", 0, 0, par_EmptySection(st))]
    /\ UNCHANGED <<arg, out, mainVars, codecVars, capVars>>

\* the backend answers a request of the function and its makeRequest
\* resumes (51-68): the value is returned, a retry is scheduled, or the
\* failure is thrown
par_Receive(st) ==
    /\ par_AllCalled
    /\ frames[st].pc = "await"
    /\ LET o == par_AttemptOutcome(arg.script[st][frames[st].made])
       IN  IF o.ok THEN par_Settle(st, o)
           ELSE IF MayRetry(frames[st].attempt, arg.maxRetries)
           THEN frames' = [frames EXCEPT ![st].pc = "backoff"]
           ELSE par_Settle(st, o)
    /\ UNCHANGED <<arg, out, mainVars, codecVars, capVars>>

\* the widget function of st resumes after its makeRequest settled and
\* returns (part_001 112-118, 133-150, 164-194: the code of main.js 186-195,
\* 213-232, 250-284 without its log lines)
par_Return(st) ==
    /\ frames[st].pc = "settled"
    /\ frames' = [frames EXCEPT ![st] =
                     Frame("done", 0, @.made,
                           Section(st, frames[st].val, ParWidget(st)))]
    /\ UNCHANGED <<arg, out, mainVars, codecVars, capVars>>

\* the mutant of par_Backoff in which the attempt counter is shared by the
\* calls of makeRequest
par_Backoff_SharedCounter(st) ==
    /\ frames[st].pc = "backoff"
    /\ IF frames[st].attempt + 1 <= arg.maxRetries
       THEN frames' = [t \in WidgetStages |->
                          IF t = st
                          THEN Frame("await", frames[t].attempt + 1,
                                     frames[t].made + 1, Undefined)
                          ELSE IF frames[t].pc \in {"await", "backoff"}
                          THEN [frames[t] EXCEPT !.attempt = @ + 1]
                          ELSE frames[t]]
       ELSE par_Settle(st, Returned(Undefined))
    /\ UNCHANGED <<arg, out, mainVars, codecVars, capVars>>

\* the backoff of the function has elapsed (64 and 49)
par_Backoff(st) ==
    /\ frames[st].pc = "backoff"
    /\ par_LoopTest(st, frames[st].attempt + 1)
    /\ UNCHANGED <<arg, out, mainVars, codecVars, capVars>>

\* Promise.all resolves and the result is built (273-296)
par_Join ==
    /\ out = NotRun
    /\ \A st \in WidgetStages : frames[st].pc = "done"
    /\ out' = Returned(BuildResult(arg.item, ResolveQuery(arg.item, arg.cfg),
                                   frames["multiline"].val, frames["comparedgeo"].val,
                                   frames["topics"].val, frames["queries"].val))
    /\ UNCHANGED <<arg, frames, mainVars, codecVars, capVars>>

NextPar ==
    \/ \E st \in WidgetStages : par_Call(st)
    \/ \E st \in WidgetStages : par_Receive(st)
    \/ \E st \in WidgetStages : par_Backoff(st)
    \/ \E st \in WidgetStages : par_Return(st)
    \/ par_Join

SpecPar == InitPar /\ [][NextPar]_vars

---------------------------------------------------------------------------
(* The response listener of the browser variant and the save of its       *)
(* record, for one item that is the only one of the run. src/unnamed/      *)
(* part_000 holds the variant twice: the first copy (546-735) drives the   *)
(* page itself, saves the record only if it has data and lets a rejection  *)
(* of the save leave main; the second copy (878-1111) runs a crawler,      *)
(* saves every record and catches the rejection. The page requests the     *)
(* widget data itself; the listener reads each response and keeps its      *)
(* payload in capturedData, from which the record is built after the       *)
(* waits. pc is where main waits: "codec" in the navigation and its waits, *)
(* "saving" for Actor.pushData, "saved", "nodata" and "navfailed" for      *)
(* context.close, "closing" and "rejected" for browser.close, "exiting"    *)
(* for Actor.exit.                                                         *)

\* parseApiResponse (376-387)
parseApiResponse(b) ==
    JSONParse(IF StartsWith(b, PrefixBackslashN) THEN Slice(b, 5)
              ELSE IF StartsWith(b, PrefixBare) THEN Slice(b, 4)
              ELSE IF StartsWith(b, PrefixNewline) THEN Slice(b, 5)
              ELSE b)

\* the bodies of the responses to the page's two related-searches requests:
\* ranked lists, a document without lists, a page of HTML
TopicsBodies == {Ok200("Rel").body, Ok200("Obj").body, HtmlReply.body}
QueriesBodies == {Ok200("RelQ").body, Ok200("Obj").body, HtmlReply.body}

\* the bodies of the responses to the page's timeline request: a list of
\* points, and a document whose timelineData is the string 'n/a'
TimelineBodies == {Ok200("Time").body, Ok200("TimeBad").body}

\* the two copies of the variant in src/unnamed/part_000
Copies == {"first", "second"}

\* how the navigation of the item ends. First copy (613-654): "loaded" when
\* the try block runs to its end, "failed" when page.goto or a wait rejects
\* or the page's content holds 'unusual traffic', 'captcha' or '429'
\* (625-628). Second copy: "loaded" when crawler.run resolves (1012),
\* "failed" when it rejects.
Navigations == {"loaded", "failed"}

\* the copy that runs, how the navigation ends, and the responses to the
\* widget requests of one page, by the widget each request was made for
CaptureArgs ==
    {[fn |-> "responseHandler", copy |-> c, navigation |-> nav,
      bodies |-> [multiline |-> bm, comparedgeo |-> Ok200("Geo").body,
                  topics |-> bt, queries |-> bq]] :
        c \in Copies, nav \in Navigations, bm \in TimelineBodies,
        bt \in TopicsBodies, bq \in QueriesBodies}

InitCapture ==
    /\ MainIdle
    /\ body = <<>> /\ parsed = NotRun
    /\ arg \in CaptureArgs
    /\ out = NotRun /\ frames = NoFrames
    /\ responses = [w \in WidgetStages |-> "pending"]
    /\ capturedData = [interestOverTime |-> JNull, geoData |-> JNull,
                       relatedTopics |-> JNull, relatedQueries |-> JNull]

\* parseApiResponse(text).default?.<field> || []  (589, 594, 599)
CapturedField(text, field) ==
    LET r == parseApiResponse(text)
    IN  IF r.ok THEN DefaultField(r.val, field) ELSE [ok |-> FALSE, err |-> ErrParse(r.err, r.words)]

\* the listener's filing of a ranked list (600-606): the first one read is
\* taken for the topics, the second for the queries
StoreRelated(w, rankedList) ==
    IF ~Truthy(capturedData.relatedTopics)
    THEN [capturedData EXCEPT !.relatedTopics = rankedList]
    ELSE IF ~Truthy(capturedData.relatedQueries)
    THEN [capturedData EXCEPT !.relatedQueries = rankedList]
    ELSE capturedData

\* a response of the page reaches the listener, which awaits its text (584-588,
\* 592-593, 597-598; 951-953, 958-960, 965-967); the listener is on the page
\* until page.off (646, 656), in the second copy until the crawler's run is
\* over (1012)
responseHandler_Begin(w) ==
    /\ pc = "codec"
    /\ responses[w] = "pending"
    /\ responses' = [responses EXCEPT ![w] = "reading"]
    /\ UNCHANGED <<capturedData, mainVars, codecVars, funVars>>

\* the text is there: it is decoded and filed; whatever is thrown is
\* swallowed (589-608, 954-982). Nothing runs once the process has exited.
responseHandler_Read(w) ==
    /\ exitCode = {}
    /\ responses[w] = "reading"
    /\ responses' = [responses EXCEPT ![w] = "handled"]
    /\ LET f == CapturedField(arg.bodies[w], ListField(w))
       IN  capturedData' =
               IF ~f.ok THEN capturedData
               ELSE IF w = "multiline"
               THEN [capturedData EXCEPT !.interestOverTime = f.val]
               ELSE IF w = "comparedgeo"
               THEN [capturedData EXCEPT !.geoData = f.val]
               ELSE StoreRelated(w, f.val)
    /\ UNCHANGED <<mainVars, codecVars, funVars>>

\* the loop over a captured ranked list (661-684) from list n on
RECURSIVE cap_ClassifyFrom(_, _, _, _)
cap_ClassifyFrom(lists, n, top, rising) ==
    IF n > Len(lists) THEN [top |-> top, rising |-> rising]
    ELSE LET rk == Prop(lists[n], "rankedKeyword")
         IN  IF ~Truthy(rk) THEN cap_ClassifyFrom(lists, n + 1, top, rising)
             ELSE IF SomeRising(rk.v, 1) = "true"
             THEN cap_ClassifyFrom(lists, n + 1, top, rk)
             ELSE cap_ClassifyFrom(lists, n + 1, rk, rising)

\* top and rising of a captured ranked list, empty when none was captured
cap_Classify(captured) ==
    IF ~Truthy(captured) THEN [top |-> EmptyArr, rising |-> EmptyArr]
    ELSE cap_ClassifyFrom(captured.v, 1, EmptyArr, EmptyArr)

\* x.length > 0 (702-704): of a list that it has an element, of a string
\* that it has a character; false of every other value the documents hold,
\* none of which has a length
cap_NonEmpty(x) ==
    IF IsArr(x) THEN Len(x.v) > 0
    ELSE x.k = "str" /\ Truthy(x)

\* the test before the save (702-704)
cap_HasData(result) ==
    \/ cap_NonEmpty(result.interestOverTime_timelineData)
    \/ cap_NonEmpty(result.relatedTopics_top)
    \/ cap_NonEmpty(result.relatedQueries_top)

\* the waits are over (610-656; crawler.run, 1012): the listener is taken
\* off and the record is built from what was captured so far (658-700,
\* 1014-1084). In the same turn the first copy hands the record to
\* Actor.pushData if it has data (702-705), or logs the item as without data
\* (709) and, the item being the last one, calls context.close (720); the
\* second copy hands every record to Actor.pushData (1086).
main_Assemble ==
    /\ pc = "codec"
    /\ arg.navigation = "loaded"
    /\ LET topics == cap_Classify(capturedData.relatedTopics)
           queries == cap_Classify(capturedData.relatedQueries)
           result == [interestOverTime_timelineData |->
                          OrElse(capturedData.interestOverTime, EmptyArr),
                      relatedTopics_top |-> topics.top,
                      relatedTopics_rising |-> topics.rising,
                      relatedQueries_top |-> queries.top,
                      relatedQueries_rising |-> queries.rising]
       IN  /\ out' = Returned(result)
           /\ pc' = IF arg.copy = "second" \/ cap_HasData(result)
                    THEN "saving" ELSE "nodata"
    /\ UNCHANGED <<arg, frames, inputVars, i, successCount, sink, exitCode,
                   itemVars, callVars, historyVars, codecVars, capVars>>

\* the navigation fails. First copy: the catch block logs 'Navigation
\* failed' and takes the listener off (644-646); the item being the last
\* one there is no wait (649-652), continue leaves the loop and
\* context.close is called (720). Second copy: the catch block logs 'Failed
\* to process' (1090-1091) and Actor.exit is called (1105). No record is
\* built and nothing is handed to Actor.pushData.
main_NavigationFailed ==
    /\ pc = "codec"
    /\ arg.fn = "responseHandler"
    /\ arg.navigation = "failed"
    /\ pc' = IF arg.copy = "second" THEN "exiting" ELSE "navfailed"
    /\ UNCHANGED <<arg, out, frames, inputVars, i, successCount, sink, exitCode,
                   itemVars, callVars, historyVars, codecVars, capVars>>

\* Actor.pushData settles. Stored: the record is in the dataset and
\* successCount is incremented (705-706, 1086-1087); the first copy goes on
\* to context.close (720), the second to Actor.exit (1105). Rejected: in the
\* first copy nothing in the loop catches the rejection, which leaves the
\* try block through finally, where browser.close is awaited (721-722); the
\* second copy catches it (1090-1091) and goes on to Actor.exit.
main_Save ==
    /\ pc = "saving"
    /\ arg.fn = "responseHandler"
    /\ \E stored \in BOOLEAN :
         /\ IF stored
            THEN sink' = Append(sink, out.val) /\ successCount' = successCount + 1
            ELSE UNCHANGED <<sink, successCount>>
         /\ pc' = IF arg.copy = "second" THEN "exiting"
                  ELSE IF stored THEN "saved" ELSE "rejected"
    /\ UNCHANGED <<arg, out, frames, inputVars, i, exitCode, itemVars, callVars,
                   historyVars, codecVars, capVars>>

\* context.close of the first copy settles (720): finally awaits
\* browser.close (721-722)
main_ContextClosed ==
    /\ pc \in {"saved", "nodata", "navfailed"}
    /\ arg.fn = "responseHandler"
    /\ pc' = "closing"
    /\ UNCHANGED <<arg, out, frames, inputVars, i, successCount, sink, exitCode,
                   itemVars, callVars, historyVars, codecVars, capVars>>

\* browser.close of the first copy settles (722): main logs the results and
\* calls Actor.exit (725-729), or, left by the rejection of the save, rejects,
\* and the process exits with code 1 (732-735)
main_BrowserClosed ==
    /\ pc \in {"closing", "rejected"}
    /\ arg.fn = "responseHandler"
    /\ IF pc = "closing"
       THEN pc' = "exiting" /\ UNCHANGED exitCode
       ELSE pc' = "failed" /\ exitCode' = {1}
    /\ UNCHANGED <<arg, out, frames, inputVars, i, successCount, sink,
                   itemVars, callVars, historyVars, codecVars, capVars>>

\* Actor.exit ends the process with code 0 (729, 1105)
main_Exited ==
    /\ pc = "exiting"
    /\ arg.fn = "responseHandler"
    /\ pc' = "done"
    /\ exitCode' = {0}
    /\ UNCHANGED <<arg, out, frames, inputVars, i, successCount, sink,
                   itemVars, callVars, historyVars, codecVars, capVars>>

NextCapture ==
    \/ \E w \in WidgetStages : responseHandler_Begin(w)
    \/ \E w \in WidgetStages : responseHandler_Read(w)
    \/ main_Assemble
    \/ main_NavigationFailed
    \/ main_Save
    \/ main_ContextClosed
    \/ main_BrowserClosed
    \/ main_Exited

SpecCapture == InitCapture /\ [][NextCapture]_vars

FunRan(fn) == arg.fn = fn /\ out # NotRun

\* the resolution hint of a widget (221)
ResolutionHint(widget) ==
    OrElse(Prop(widget, "resolution"),
           OptProp(Prop(widget, "request"), "resolution"))

\* the geo-map payload of a response: data.default?.geoMapData || [], and
\* nothing when the request failed
GeoPayload(r) ==
    IF r.ok /\ DefaultField(r.val, "geoMapData").ok
    THEN DefaultField(r.val, "geoMapData").val
    ELSE EmptyArr

\* C12 as stated: REGION puts the payload in interestBySubregion, CITY in
\* interestByCity, every other or absent hint in interestBy; the two other
\* buckets are empty.
C12_BucketByHint ==
    FunRan("getGeoData") =>
        LET h == ResolutionHint(arg.widget)
            p == GeoPayload(arg.r)
        IN  out.val = IF h = JStr("REGION") THEN GeoBuckets(p, EmptyArr, EmptyArr)
                      ELSE IF h = JStr("CITY") THEN GeoBuckets(EmptyArr, p, EmptyArr)
                      ELSE GeoBuckets(EmptyArr, EmptyArr, p)

\* C12 amended: REGION or provinces puts the whole payload in
\* interestBySubregion, CITY or cities in interestByCity, every other or
\* absent hint in interestBy; the two other buckets are empty.
C12_BucketByHintOrAlias ==
    FunRan("getGeoData") =>
        LET h == ResolutionHint(arg.widget)
            p == GeoPayload(arg.r)
        IN  out.val = IF h \in {JStr("REGION"), JStr("provinces")}
                      THEN GeoBuckets(p, EmptyArr, EmptyArr)
                      ELSE IF h \in {JStr("CITY"), JStr("cities")}
                      THEN GeoBuckets(EmptyArr, p, EmptyArr)
                      ELSE GeoBuckets(EmptyArr, EmptyArr, p)

\* C12's case: a non-empty payload for a widget whose request carries the
\* hint CITY went to interestByCity alone
C12_Witness ==
    /\ FunRan("getGeoData")
    /\ Prop(arg.widget, "resolution") = Undefined
    /\ ResolutionHint(arg.widget) = JStr("CITY")
    /\ GeoPayload(arg.r) # EmptyArr
    /\ out.val = GeoBuckets(EmptyArr, GeoPayload(arg.r), EmptyArr)

\* the ranked lists of the payload of a call of getRelatedSearches: those
\* with a rankedKeyword array, in payload order
RankedOf(a) ==
    LET lists == a.r.val.v.default.v.rankedList.v
        keep == {n \in 1..Len(lists) : Truthy(Prop(lists[n], "rankedKeyword"))}
        RECURSIVE From(_)
        From(n) == IF n > Len(lists) THEN <<>>
                   ELSE IF n \in keep
                        THEN <<Prop(lists[n], "rankedKeyword").v>> \o From(n + 1)
                   ELSE From(n + 1)
    IN  From(1)

\* an item has a formattedValue that contains '%' or is "breakout" in any case
HasMarker(item) ==
    LET fv == Prop(item, "formattedValue")
    IN  /\ fv.k = "str"
        /\ \/ \E n \in 1..Len(CharsOf[fv.v]) : CharsOf[fv.v][n] = "%"
           \/ fv.v \in {"breakout", "Breakout", "BREAKOUT"}

\* the bucket of a ranked list
BucketOf(items) ==
    IF \E n \in 1..Len(items) : HasMarker(items[n]) THEN "rising" ELSE "top"

\* the items of a list as the result holds them: hasData is filled in
Listed(items) == JArr([n \in 1..Len(items) |-> WithHasData(items[n])])

\* the positions of the lists of a bucket
InBucket(ranked, b) == {n \in 1..Len(ranked) : BucketOf(ranked[n]) = b}

Max(S) == CHOOSE n \in S : \A m \in S : m <= n

\* C14: in a payload whose ranked lists fall into different buckets, a list
\* with an item whose formattedValue contains '%' or is "breakout" in any
\* case is the rising result, and a list without such an item (numeric
\* formattedValues, none, or no item) is the top result.
C14_RisingIffMarker ==
    FunRan("getRelatedSearches") =>
        LET ranked == RankedOf(arg)
        IN  (\A b \in {"top", "rising"} : Cardinality(InBucket(ranked, b)) <= 1) =>
                \A n \in 1..Len(ranked) :
                    /\ Prop(out.val, BucketOf(ranked[n])) = Listed(ranked[n])
                    /\ ranked[n] # <<>> =>
                          \A b \in {"top", "rising"} \ {BucketOf(ranked[n])} :
                              Prop(out.val, b) # Listed(ranked[n])

\* C14's case: a list marked by BREAKOUT alone and a list of numeric values
\* were classified rising and top
C14_Witness ==
    /\ FunRan("getRelatedSearches")
    /\ RankedOf(arg) = << << Ranked("matcha", "BREAKOUT") >>,
                          << Ranked("mocha", "53"), Ranked("latte", "100") >> >>
    /\ Prop(out.val, "rising") = Listed(<< Ranked("matcha", "BREAKOUT") >>)
    /\ Prop(out.val, "top") # EmptyArr

\* C15: each bucket of the result holds exactly the items of the last ranked
\* list of the payload that classifies into it, and is empty when none does.
C15_LastListWins ==
    FunRan("getRelatedSearches") =>
        LET ranked == RankedOf(arg)
        IN  \A b \in {"top", "rising"} :
                Prop(out.val, b) =
                    IF InBucket(ranked, b) = {} THEN EmptyArr
                    ELSE Listed(ranked[Max(InBucket(ranked, b))])

\* C15's case: two top lists, the second is the result; no rising list
C15_Witness ==
    /\ FunRan("getRelatedSearches")
    /\ RankedOf(arg) = << << Ranked("mocha", "53"), Ranked("latte", "100") >>,
                          << Ranked("latte", "100") >> >>
    /\ Prop(out.val, "top") = Listed(<< Ranked("latte", "100") >>)
    /\ Prop(out.val, "rising") = EmptyArr

\* the input of a call of processSearchTerm is a URL new URL accepts
UrlResolved == FunRan("processSearchTerm") /\ arg.item.http /\ arg.item.parses

\* C19: for a URL without the geo, date or cat parameter the query
\* descriptor has the global geo, time range or category.
C19_AbsentParameterKeepsDefault ==
    UrlResolved =>
        /\ arg.item.geo = JNull => out.val.geo = arg.cfg.geo
        /\ arg.item.date = JNull => out.val.timeRange = arg.cfg.timeRange
        /\ arg.item.cat = JNull => out.val.category = arg.cfg.category

\* C20: for a URL with the geo, date or cat parameter the query descriptor
\* has the value of the URL, category 0 included.
C20_PresentParameterOverrides ==
    UrlResolved =>
        /\ arg.item.geo # JNull => out.val.geo = arg.item.geo
        /\ arg.item.date # JNull => out.val.timeRange = arg.item.date
        /\ arg.item.cat # JNull => out.val.category = IntOf[arg.item.cat.v]

\* C21: when customTimeRange is set, the time of the discovery request of a
\* keyword item and the timeRange of its record are both customTimeRange.
C21_CustomTimeRangeOverrides ==
    (FunRan("main") /\ Truthy(arg.customTimeRange)) =>
        /\ out.val.time = arg.customTimeRange
        /\ out.val.timeRange = arg.customTimeRange

---------------------------------------------------------------------------
(* PipelineOrchestrator: main's loop (452-490) over processSearchTerm      *)
(* (313-391).  One thread of control; pc names the await it stands at:     *)
(*   start    before the item list is examined (447)                       *)
(*   loop     at the head of the for loop (459)                            *)
(*   attempt  at the head of makeRequest's for loop (97)                   *)
(*   await    at gotScraping (117), the HTTP request in flight             *)
(*   backoff  at makeRequest's setTimeout (129)                            *)
(*   ret      makeRequest has returned or thrown to its caller             *)
(*   fetch    processSearchTerm is about to call a widget function         *)
(*   pause    at processSearchTerm's setTimeout (362, 365, 368)            *)
(*   push     at Actor.pushData (473)                                      *)
(*   delay    at main's setTimeout (484)                                   *)
(*   done     main has returned                                            *)
(***************************************************************************)

\* a URL that gives the keyword, the geo and the time range
UrlCoffeeUS ==
    UrlItem("https://trends.google.com/trends/explore?q=coffee&geo=US&date=today%2012-m",
            JStr("coffee"), JStr("US"), JStr("today 12-m"), JNull)

\* the items a run is given: a keyword item with an empty keyword and a URL
\* item (a non-empty keyword item is resolved in SpecFun, see ResolveArgs)
ItemPool == { KeywordItem(""), UrlCoffeeUS }

Configs == { [geo |-> JStr(""), timeRange |-> JStr(""), category |-> JNum(0)] }

Min(a, b) == IF a < b THEN a ELSE b

\* the mutant of ProcessLimit that ignores maxItems
ProcessLimit_Unbounded == Len(itemsToProcess)

\* processLimit (454)
ProcessLimit ==
    IF maxItems > 0 THEN Min(maxItems, Len(itemsToProcess)) ELSE Len(itemsToProcess)

Items == 1..Len(itemsToProcess)

Init ==
    /\ config \in Configs
    /\ itemsToProcess \in SeqsUpTo(ItemPool, MaxItemCount)
    /\ maxItems \in {0, 1}
    /\ maxRequestRetries \in RetryInputs
    /\ i = 0 /\ pc = "start" /\ successCount = 0 /\ sink = <<>>
    /\ exitCode = {}
    /\ query = NoQuery /\ stage = "none" /\ widgets = Undefined
    /\ interestOverTime = Undefined /\ geoData = Undefined
    /\ relatedTopics = Undefined /\ relatedQueries = Undefined
    /\ attempt = 0 /\ ret = Undefined /\ backoffDelay = 0 /\ inflight = {}
    /\ made = 0 /\ fails = 0 /\ lastReply = NoReply /\ deviations = 0
    /\ itemStatus = [j \in Items |-> "PENDING"]
    /\ skipReason = [j \in Items |-> "none"]
    /\ delayAfter = [j \in Items |-> 0]
    /\ fetched = [j \in Items |-> {}]
    /\ calls = 0 /\ attempts = 0
    /\ body = <<>> /\ parsed = NotRun
    /\ arg = NoArg /\ out = NotRun /\ frames = NoFrames
    /\ NoCapture

\* A run of one item is explored with every pattern of answers; in a run of
\* several items at most MaxDeviations answers differ from the nominal one.
Budgeted == Len(itemsToProcess) > 1

\* whether one more answer may differ from the nominal one
MayDeviate == ~Budgeted \/ deviations < MaxDeviations

\* the count of deviations after one more
Deviated == IF deviations < MaxDeviations THEN deviations + 1 ELSE deviations

\* the counters of the item in progress are kept up to CountLimit, one more
\* than the attempts of an item that fails every attempt of every call
CountLimit == (1 + Cardinality(WidgetStages)) * MaxRetries + 1

\* a counter of the item in progress after one more
Counted(n) == IF n < CountLimit THEN n + 1 ELSE n

\* the mutant of Awaited in which main does not await processSearchTerm
Awaited_Missing(p) == p \in {"loop", "await"}

\* main goes on to the next item only at the head of its loop: it awaits
\* processSearchTerm (463) and pushData (473)
Awaited(p) == p = "loop"

\* where main stands after an item: at the delay if another item follows (482)
AfterItemPc(n, limit) == IF n < limit THEN "delay" ELSE "loop"

\* the mutant of ItemErrorPc whose catch block continues with the next item
ItemErrorPc_NoDelay(n, limit) == "loop"

\* the mutant of ItemErrorPc without the catch block: main rejects
ItemErrorPc_Abort(n, limit) == "done"

\* where main stands after processSearchTerm threw: the catch block (477-479)
\* logs and falls through to the delay
ItemErrorPc(n, limit) == AfterItemPc(n, limit)

\* where processSearchTerm stands after a widget function returned (361-370)
AfterFetchPc(st) == IF st = "queries" THEN "push" ELSE "pause"

\* the mutant of NextStage that goes back to the timeline after the topics
NextStage_Cycle(st) ==
    CASE st = "multiline" -> "comparedgeo"
      [] st = "comparedgeo" -> "topics"
      [] st = "topics" -> "multiline"

\* the widget fetched after st (361-370)
NextStage(st) ==
    CASE st = "multiline" -> "comparedgeo"
      [] st = "comparedgeo" -> "topics"
      [] st = "topics" -> "queries"

\* the mutant of CurrentRequest whose req is rebuilt from the query of the
\* item instead of taken from the widget
CurrentRequest_Rebuilt ==
    [item |-> i, endpoint |-> Endpoint(stage),
     req |-> Stringify(ExploreReq(query)),
     token |-> IF stage = "explore" THEN Undefined
               ELSE Prop(FindWidget(widgets, WidgetId(stage)), "token")]

\* the HTTP request makeRequest issues at the current stage (153-156,
\* 180-184, 207-211, 244-248)
CurrentRequest ==
    IF stage = "explore"
    THEN [item |-> i, endpoint |-> Endpoint(stage),
          req |-> Stringify(ExploreReq(query)), token |-> Undefined]
    ELSE LET widget == FindWidget(widgets, WidgetId(stage))
         IN  [item |-> i, endpoint |-> Endpoint(stage),
              req |-> Stringify(Prop(widget, "request")),
              token |-> Prop(widget, "token")]

\* whether the payload of a widget response lacks the list its stage decodes
FetchFailed(st, r) ==
    \/ ~r.ok
    \/ Nullish(r.val)
    \/ ~IsArr(OptProp(Prop(r.val, "default"), ListField(st)))

SetSection(st, val) ==
    /\ interestOverTime' = IF st = "multiline" THEN val ELSE interestOverTime
    /\ geoData' = IF st = "comparedgeo" THEN val ELSE geoData
    /\ relatedTopics' = IF st = "topics" THEN val ELSE relatedTopics
    /\ relatedQueries' = IF st = "queries" THEN val ELSE relatedQueries

\* makeRequest is entered (97)
BeginCall ==
    /\ attempt' = 1 /\ ret' = Undefined /\ backoffDelay' = 0
    /\ made' = 0 /\ fails' = 0 /\ lastReply' = NoReply
    /\ pc' = "attempt"

\* makeRequest's frame is left
EndCall ==
    /\ attempt' = 0 /\ ret' = Undefined /\ backoffDelay' = 0
    /\ made' = 0 /\ fails' = 0 /\ lastReply' = NoReply

EndItem(j, status, reason) ==
    /\ itemStatus' = [itemStatus EXCEPT ![j] = status]
    /\ skipReason' = [skipReason EXCEPT ![j] = reason]

\* the exit code after main's promise settles (498-505): process.exit(1) when
\* main rejected, otherwise Actor.exit() with its default code 0
ExitCodeOf(rejected) == IF rejected THEN 1 ELSE 0

\* main.js 447-456: no item, no run: main logs and returns (448-449), and the
\* process exits (503-505)
main_Start ==
    /\ pc = "start"
    /\ IF Len(itemsToProcess) = 0
       THEN pc' = "done" /\ exitCode' = {ExitCodeOf(FALSE)}
       ELSE pc' = "loop" /\ UNCHANGED exitCode
    /\ UNCHANGED <<inputVars, i, successCount, sink, itemVars, callVars,
                   historyVars, codecVars, funVars, capVars>>

\* the mutant of main_NextItem without the test of the search term (330-333)
main_NextItem_NoKeywordCheck ==
    /\ Awaited(pc)
    /\ i < ProcessLimit
    /\ i' = i + 1
    /\ query' = ResolveQuery(itemsToProcess[i + 1], config)
    /\ widgets' = Undefined
    /\ interestOverTime' = Undefined /\ geoData' = Undefined
    /\ relatedTopics' = Undefined /\ relatedQueries' = Undefined
    /\ EndItem(i + 1, "RESOLVING", "none")
    /\ stage' = "explore"
    /\ BeginCall
    /\ calls' = 1 /\ attempts' = 0
    /\ UNCHANGED <<inputVars, exitCode, successCount, sink, inflight, deviations,
                   delayAfter, fetched, codecVars, funVars, capVars>>

\* main.js 459-470 and processSearchTerm 313-345: the next item is taken and
\* resolved; an empty search term ends it (330-333), otherwise the discovery
\* request is prepared
main_NextItem ==
    /\ Awaited(pc)
    /\ i < ProcessLimit
    /\ i' = i + 1
    /\ LET q == ResolveQuery(itemsToProcess[i + 1], config)
       IN  /\ query' = q
           /\ widgets' = Undefined
           /\ interestOverTime' = Undefined /\ geoData' = Undefined
           /\ relatedTopics' = Undefined /\ relatedQueries' = Undefined
           /\ IF ~Truthy(q.searchTerm)
              THEN /\ EndItem(i + 1, "SKIPPED", "invalid")
                   /\ pc' = AfterItemPc(i + 1, ProcessLimit)
                   /\ stage' = "none"
                   /\ calls' = 0
                   /\ UNCHANGED <<attempt, ret, backoffDelay, made, fails,
                                  lastReply>>
              ELSE /\ EndItem(i + 1, "RESOLVING", "none")
                   /\ stage' = "explore"
                   /\ BeginCall
                   /\ calls' = 1
    /\ attempts' = 0
    /\ UNCHANGED <<inputVars, exitCode, successCount, sink, inflight, deviations,
                   delayAfter, fetched, codecVars, funVars, capVars>>

\* makeRequest 97-117: the loop test, then gotScraping is called; when the
\* test fails at once (maxRetries < 1) makeRequest returns undefined
makeRequest_Attempt ==
    /\ pc = "attempt"
    /\ IF LoopTest(attempt, maxRequestRetries)
       THEN /\ inflight' = inflight \cup {CurrentRequest}
            /\ made' = made + 1
            /\ attempts' = Counted(attempts)
            /\ fetched' = IF stage \in WidgetStages
                          THEN [fetched EXCEPT ![i] = @ \cup {stage}]
                          ELSE fetched
            /\ pc' = "await"
            /\ ret' = ret
       ELSE /\ ret' = [ok |-> TRUE, val |-> Undefined]
            /\ pc' = "ret"
            /\ UNCHANGED <<inflight, made, fetched, attempts>>
    /\ UNCHANGED <<inputVars, exitCode, i, successCount, sink, itemVars, attempt,
                   backoffDelay, fails, lastReply, deviations, itemStatus,
                   skipReason, delayAfter, calls, codecVars, funVars, capVars>>

\* makeRequest 117-133: the backend answers; parseResponse's value is
\* returned, or the catch block schedules a retry or rethrows
makeRequest_Receive ==
    /\ pc = "await"
    /\ \E reply \in {Nominal(stage)} \cup Deviant(stage) :
         LET o == AttemptOutcome(reply)
         IN  /\ reply # Nominal(stage) => MayDeviate
             /\ deviations' = IF reply = Nominal(stage) THEN deviations
                              ELSE Deviated
             /\ lastReply' = reply
             /\ inflight' = inflight \ {CurrentRequest}
             /\ IF o.ok
                THEN /\ ret' = o /\ pc' = "ret"
                     /\ UNCHANGED <<fails, backoffDelay>>
                ELSE /\ fails' = fails + 1
                     /\ IF MayRetry(attempt, maxRequestRetries)
                        THEN /\ backoffDelay' = Delay(o.err, attempt)
                             /\ pc' = "backoff" /\ ret' = ret
                        ELSE /\ backoffDelay' = 0
                             /\ pc' = "ret" /\ ret' = o
    /\ UNCHANGED <<inputVars, exitCode, i, successCount, sink, itemVars, attempt, made,
                   itemStatus, skipReason, delayAfter, fetched, calls, attempts,
                   codecVars, funVars, capVars>>

\* makeRequest 129 and 97: the backoff has elapsed, the next attempt begins
makeRequest_Backoff ==
    /\ pc = "backoff"
    /\ attempt' = attempt + 1
    /\ backoffDelay' = 0
    /\ lastReply' = NoReply
    /\ pc' = "attempt"
    /\ UNCHANGED <<inputVars, exitCode, i, successCount, sink, itemVars, ret, inflight,
                   made, fails, deviations, itemStatus, skipReason, delayAfter,
                   fetched, calls, attempts, codecVars, funVars, capVars>>

\* getExploreWidgets 160-168 and processSearchTerm 347-356: a failure of the
\* discovery call leaves processSearchTerm for main's catch block; no widget
\* ends the item; otherwise the widget fetches begin
getExploreWidgets_Return ==
    /\ pc = "ret" /\ stage = "explore"
    /\ LET r == IF ret.ok THEN ExploreResult(ret.val) ELSE ret
       IN  IF ~r.ok
           THEN /\ EndItem(i, "SKIPPED", IF ret.ok THEN "exception" ELSE "resolver")
                /\ pc' = ItemErrorPc(i, ProcessLimit)
                /\ UNCHANGED <<widgets, stage>>
           ELSE IF ~(IsArr(r.val) /\ Len(r.val.v) > 0)
           THEN /\ EndItem(i, "SKIPPED", "nodata")
                /\ pc' = AfterItemPc(i, ProcessLimit)
                /\ widgets' = r.val
                /\ UNCHANGED stage
           ELSE /\ EndItem(i, "FETCHING", "none")
                /\ widgets' = r.val
                /\ stage' = "multiline"
                /\ pc' = "fetch"
    /\ EndCall
    /\ UNCHANGED <<inputVars, exitCode, i, successCount, sink, query, interestOverTime,
                   geoData, relatedTopics, relatedQueries, inflight, deviations,
                   delayAfter, fetched, calls, attempts, codecVars, funVars,
                   capVars>>

\* a widget function is called (361, 364, 367, 370): without a widget or a
\* token it returns its empty value (174-178, 201-205, 238-242), otherwise it
\* calls makeRequest
fetch_Begin ==
    /\ pc = "fetch" /\ stage \in WidgetStages
    /\ IF Fetchable(FindWidget(widgets, WidgetId(stage)))
       THEN /\ BeginCall
            /\ calls' = Counted(calls)
            /\ UNCHANGED <<interestOverTime, geoData, relatedTopics,
                           relatedQueries>>
       ELSE /\ SetSection(stage, EmptySection(stage))
            /\ pc' = AfterFetchPc(stage)
            /\ UNCHANGED <<attempt, ret, backoffDelay, made, fails, lastReply,
                           calls>>
    /\ UNCHANGED <<inputVars, exitCode, i, successCount, sink, query, stage, widgets,
                   inflight, deviations, itemStatus, skipReason, delayAfter,
                   fetched, attempts, codecVars, funVars, capVars>>

\* a widget function returns (186-195, 213-232, 250-284): makeRequest's value
\* is decoded, its failure is caught
fetch_Return ==
    /\ pc = "ret" /\ stage \in WidgetStages
    /\ SetSection(stage, Section(stage, ret, FindWidget(widgets, WidgetId(stage))))
    /\ EndCall
    /\ pc' = AfterFetchPc(stage)
    /\ UNCHANGED <<inputVars, exitCode, i, successCount, sink, query, stage, widgets,
                   inflight, deviations, itemStatus, skipReason, delayAfter,
                   fetched, calls, attempts, codecVars, funVars, capVars>>

\* processSearchTerm 362, 365, 368: the delay between two widget fetches
processSearchTerm_Pause ==
    /\ pc = "pause"
    /\ stage' = NextStage(stage)
    /\ pc' = "fetch"
    /\ UNCHANGED <<inputVars, exitCode, i, successCount, sink, query, widgets,
                   interestOverTime, geoData, relatedTopics, relatedQueries,
                   callVars, historyVars, codecVars, funVars, capVars>>

\* the mutant of main_Push that pushes the result a second time
main_Push_Twice ==
    /\ pc = "push"
    /\ \E stored \in BOOLEAN :
         IF stored
         THEN /\ LET result == BuildResult(itemsToProcess[i], query, interestOverTime,
                                           geoData, relatedTopics, relatedQueries)
                 IN  sink' = Append(Append(sink, result), result)
              /\ successCount' = successCount + 1
              /\ EndItem(i, "EMITTED", "none")
              /\ pc' = AfterItemPc(i, ProcessLimit)
              /\ UNCHANGED deviations
         ELSE /\ MayDeviate
              /\ deviations' = Deviated
              /\ EndItem(i, "SKIPPED", "push")
              /\ pc' = ItemErrorPc(i, ProcessLimit)
              /\ UNCHANGED <<sink, successCount>>
    /\ UNCHANGED <<inputVars, exitCode, i, itemVars, callVars, made, fails, lastReply,
                   delayAfter, fetched, calls, attempts, codecVars, funVars,
                   capVars>>

\* processSearchTerm 372-390 and main 472-479: the result is built, returned
\* and pushed; when Actor.pushData rejects, the catch block (477-479) logs
\* and the item has no record
main_Push ==
    /\ pc = "push"
    /\ \E stored \in BOOLEAN :
         IF stored
         THEN /\ sink' = Append(sink, BuildResult(itemsToProcess[i], query,
                                                  interestOverTime, geoData,
                                                  relatedTopics, relatedQueries))
              /\ successCount' = successCount + 1
              /\ EndItem(i, "EMITTED", "none")
              /\ pc' = AfterItemPc(i, ProcessLimit)
              /\ UNCHANGED deviations
         ELSE /\ MayDeviate
              /\ deviations' = Deviated
              /\ EndItem(i, "SKIPPED", "push")
              /\ pc' = ItemErrorPc(i, ProcessLimit)
              /\ UNCHANGED <<sink, successCount>>
    /\ UNCHANGED <<inputVars, exitCode, i, itemVars, callVars, made, fails, lastReply,
                   delayAfter, fetched, calls, attempts, codecVars, funVars,
                   capVars>>

\* main 481-485: the delay before the next item
main_Delay ==
    /\ pc = "delay"
    /\ delayAfter' = [delayAfter EXCEPT ![i] = InterItemDelayMs]
    /\ pc' = "loop"
    /\ UNCHANGED <<inputVars, exitCode, i, successCount, sink, itemVars, callVars, made,
                   fails, lastReply, deviations, itemStatus, skipReason, fetched,
                   calls, attempts, codecVars, funVars, capVars>>

\* main 486-490 and 503-505: the loop ends, main returns and the process exits
main_Finish ==
    /\ pc = "loop"
    /\ i >= ProcessLimit
    /\ pc' = "done"
    /\ exitCode' = {ExitCodeOf(FALSE)}
    /\ UNCHANGED <<inputVars, i, successCount, sink, itemVars, callVars,
                   historyVars, codecVars, funVars, capVars>>

Next ==
    \/ main_Start
    \/ main_NextItem
    \/ makeRequest_Attempt
    \/ makeRequest_Receive
    \/ makeRequest_Backoff
    \/ getExploreWidgets_Return
    \/ fetch_Begin
    \/ fetch_Return
    \/ processSearchTerm_Pause
    \/ main_Push
    \/ main_Delay
    \/ main_Finish

Spec == Init /\ [][Next]_vars

\* The run under its scheduler: there is one thread of control, every timer
\* fires (129, 362-368, 484) and every HTTP attempt is answered or times out
\* (timeout 60000, line 107), so a step that can be taken is taken.
FairSpec == Spec /\ WF_vars(Next)

---------------------------------------------------------------------------
(* The claims about the item loop, checked under Spec.                     *)

\* the widget requests among those in flight
WidgetRequests == {r \in inflight : r.endpoint # Endpoint("explore")}

\* the widgets of the discovery response of the current item that carry id
WidgetsWithId(id) ==
    IF IsArr(widgets)
    THEN {widgets.v[n] : n \in {m \in 1..Len(widgets.v) :
                                    Prop(widgets.v[m], "id") = JStr(id)}}
    ELSE {}

\* C1: a widget request is in flight only for an item whose discovery request
\* has returned its widgets, and it carries the token and the request payload
\* of a widget of that response with the id of the fetch; an item that has
\* not passed discovery has issued no widget request.
C1_WidgetAfterDiscovery ==
    /\ \A r \in WidgetRequests :
         /\ r.item = i
         /\ itemStatus[i] = "FETCHING"
         /\ stage \in WidgetStages
         /\ r.endpoint = Endpoint(stage)
         /\ \E w \in WidgetsWithId(WidgetId(stage)) :
              /\ r.token = Prop(w, "token")
              /\ Truthy(r.token)
              /\ r.req = Stringify(Prop(w, "request"))
    /\ \A j \in DOMAIN fetched :
         fetched[j] # {} =>
            \/ itemStatus[j] \in {"FETCHING", "EMITTED"}
            \/ itemStatus[j] = "SKIPPED" /\ skipReason[j] = "push"

\* C1's case: the geo request of the second item is in flight with the token
\* of the GEO_MAP widget
C1_Witness ==
    /\ i = 2
    /\ \E r \in inflight :
         /\ r.endpoint = Endpoint("comparedgeo")
         /\ r.token = JStr("tok-geo")

\* the document a 200 answer of the model carries behind the newline prefix
CarriedDoc(reply) ==
    IF /\ reply.status = 200
       /\ Len(reply.body) = Len(PrefixNewline) + 1
       /\ StartsWith(reply.body, PrefixNewline)
       /\ reply.body[Len(reply.body)] \in DocNames
    THEN {Docs[reply.body[Len(reply.body)]]}
    ELSE {}

\* C2: when makeRequest returns after issuing a request, the attempts before
\* the last all failed and the last succeeded (k failures, k + 1 attempts, no
\* attempt after the success), k + 1 is within maxRetries, and the value
\* returned is the decoded document of the last answer; makeRequest gives up
\* only when maxRetries attempts were made.
C2_ReturnsAfterFirstSuccess ==
    /\ (pc = "ret" /\ ret.ok /\ made > 0) =>
          /\ made = fails + 1
          /\ made <= maxRequestRetries
          /\ inflight = {}
          /\ CarriedDoc(lastReply) = {ret.val}
    /\ (pc = "ret" /\ ~ret.ok) => made >= maxRequestRetries
    /\ made <= fails + 1

\* C2's case: one failed attempt, then a success that is returned
C2_Witness ==
    /\ pc = "ret" /\ ret.ok
    /\ fails = 1 /\ made = 2
    /\ ret.val = Docs["WAll"]

\* C3: when makeRequest raises, every one of its maxRetries attempts failed,
\* exactly maxRetries attempts were issued, and the failure raised is that of
\* the last attempt.
C3_RaisesLastFailureAfterMaxRetries ==
    (pc = "ret" /\ ~ret.ok) =>
        /\ maxRequestRetries >= 1
        /\ made = maxRequestRetries
        /\ fails = maxRequestRetries
        /\ inflight = {}
        /\ ~AttemptOutcome(lastReply).ok
        /\ ret.err = AttemptOutcome(lastReply).err

\* C3's case: two attempts of two failed, the second on a body that does not
\* decode, and that failure is raised
C3_Witness ==
    /\ pc = "ret" /\ ~ret.ok
    /\ maxRequestRetries = 2 /\ made = 2
    /\ ret.err = ErrParse("SyntaxError", {})

Terminal(j) == itemStatus[j] \in {"EMITTED", "SKIPPED"}

\* C6: at most one request is in flight, it belongs to the item in progress,
\* every earlier item has reached EMITTED or SKIPPED and no later item has
\* begun or issued a request.
C6_OneItemAtATime ==
    /\ Cardinality(inflight) <= 1
    /\ \A r \in inflight : r.item = i
    /\ \A j \in DOMAIN itemStatus :
         /\ j < i => Terminal(j)
         /\ j > i => itemStatus[j] = "PENDING" /\ fetched[j] = {}
    /\ (pc \in {"attempt", "await", "backoff"}) => ~Terminal(i)

\* C6's case: a request of the second item is in flight after the first item
\* ended
C6_Witness ==
    /\ i = 2
    /\ inflight # {}
    /\ itemStatus[1] = "EMITTED"

\* the items for which a record was pushed
Emitted == {j \in DOMAIN itemStatus : itemStatus[j] = "EMITTED"}

\* C7: an item whose discovery request failed on all its attempts is SKIPPED
\* from RESOLVING: no widget request was issued for it, no record was pushed
\* for it, and main does not end while items remain.
C7_ResolverFailureSkipsItem ==
    /\ \A j \in DOMAIN skipReason :
         skipReason[j] = "resolver" =>
            /\ itemStatus[j] = "SKIPPED"
            /\ fetched[j] = {}
            /\ (j = i /\ j < ProcessLimit) => pc # "done"
    /\ Len(sink) = Cardinality(Emitted)
    /\ (pc = "ret" /\ stage = "explore" /\ ~ret.ok) =>
          /\ itemStatus[i] = "RESOLVING"
          /\ fetched[i] = {}

\* C7's case: the discovery request of the first item failed, the item was
\* skipped and the second item has been emitted
C7_Witness ==
    /\ Len(itemStatus) = 2
    /\ skipReason[1] = "resolver"
    /\ itemStatus[2] = "EMITTED"
    /\ Len(sink) = 1

\* C8: the delay after an item is longer than the inter-item delay exactly
\* when the item was skipped for the failure of its discovery request.
C8_ExtendedCooldownIffResolverFailure ==
    \A j \in DOMAIN delayAfter :
        delayAfter[j] > 0 =>
            (delayAfter[j] > InterItemDelayMs <=> skipReason[j] = "resolver")

\* the section of the record a stage fills
SectionOf(st, timeline, geo, topics, queries) ==
    CASE st = "multiline" -> timeline
      [] st = "comparedgeo" -> geo
      [] st = "topics" -> topics
      [] st = "queries" -> queries

\* C9: when a widget fetch has failed (makeRequest raised, or the payload is
\* null or lacks the list of the stage), the section of that widget is set
\* to its empty value and processSearchTerm goes on to the next widget or to
\* the record.
C9_FailedWidgetGivesEmptySection ==
    [][ (pc = "ret" /\ stage \in WidgetStages /\ FetchFailed(stage, ret)) =>
           /\ SectionOf(stage, interestOverTime', geoData', relatedTopics',
                        relatedQueries') = EmptySection(stage)
           /\ pc' = AfterFetchPc(stage)
           /\ itemStatus' = itemStatus ]_vars

\* C10: every record of the sink has a non-empty timeline, non-empty top
\* related topics or non-empty top related queries.
C10_NoEmptyRecordPushed ==
    \A n \in 1..Len(sink) :
        \/ sink[n].interestOverTime_timelineData # EmptyArr
        \/ sink[n].relatedTopics_top # EmptyArr
        \/ sink[n].relatedQueries_top # EmptyArr

\* the record pushed for the emitted item j: records are pushed in item order
RecordOf(j) == sink[Cardinality({k \in 1..j : itemStatus[k] = "EMITTED"})]

\* C11: when every answer of the backend was the nominal one (the discovery
\* response lists the four widgets, the geo widget with resolution COUNTRY,
\* and every widget payload is non-empty), an item that resolves to keyword
\* "coffee", geo "US", time range "today 12-m" ends EMITTED with one record:
\* its timeline is the non-empty payload, interestBy holds the geo payload,
\* interestBySubregion and interestByCity are empty.
C11_NominalRunEmitsFullRecord ==
    (deviations = 0 /\ maxRequestRetries >= 1) =>
        /\ Len(sink) = Cardinality(Emitted)
        /\ \A j \in DOMAIN itemStatus :
             (itemsToProcess[j] = UrlCoffeeUS /\ Terminal(j)) =>
                /\ itemStatus[j] = "EMITTED"
                /\ fetched[j] = WidgetStages
                /\ LET rec == RecordOf(j)
                   IN  /\ rec.searchTerm = JStr("coffee")
                       /\ rec.geo = JStr("US")
                       /\ rec.timeRange = JStr("today 12-m")
                       /\ rec.interestOverTime_timelineData
                              = Docs["Time"].v.default.v.timelineData
                       /\ rec.interestOverTime_timelineData # EmptyArr
                       /\ rec.interestBy = Docs["Geo"].v.default.v.geoMapData
                       /\ rec.interestBy # EmptyArr
                       /\ rec.interestBySubregion = EmptyArr
                       /\ rec.interestByCity = EmptyArr

\* C11's case: the run of the single item coffee/US/today 12-m has ended with
\* nominal answers only and its record is in the sink
C11_Witness ==
    /\ pc = "done"
    /\ deviations = 0
    /\ itemsToProcess = <<UrlCoffeeUS>>
    /\ Len(sink) = 1
    /\ sink[1].interestBy # EmptyArr

\* the geo buckets of a record that are not empty
FilledBuckets(rec) ==
    {b \in {"interestBySubregion", "interestByCity", "interestBy"} :
        rec[b] # EmptyArr}

\* C13: in every record of the sink at most one of interestBySubregion,
\* interestByCity and interestBy is non-empty.
C13_AtMostOneGeoBucket ==
    \A n \in 1..Len(sink) : Cardinality(FilledBuckets(sink[n])) <= 1

\* C13's case: a record whose geo widget had the hint REGION is in the sink
\* with interestBySubregion filled, after a record with interestBy filled
C13_Witness ==
    /\ Len(sink) = 2
    /\ FilledBuckets(sink[1]) = {"interestBy"}
    /\ FilledBuckets(sink[2]) = {"interestBySubregion"}

\* C16: a step adds at most one record to the sink, and only for the item in
\* progress, which had no record before; the records already in the sink stay
\* as they are; the sink never holds more records than items were started.
C16_OneRecordPerItemAppendOnly ==
    [][ /\ Len(sink') <= Len(sink) + 1
        /\ SubSeq(sink', 1, Len(sink)) = sink
        /\ Len(sink') <= i'
        /\ Len(sink') > Len(sink) =>
              /\ i' = i
              /\ itemStatus[i] # "EMITTED"
              /\ itemStatus'[i] = "EMITTED"
              /\ sink'[Len(sink')].inputUrlOrTerm = itemsToProcess[i].text
        /\ \A j \in DOMAIN itemStatus :
              itemStatus[j] = "EMITTED" => itemStatus'[j] = "EMITTED" ]_vars

\* C16's case: both items of a run have their record in the sink
C16_Witness ==
    /\ i = 2
    /\ Len(sink) = 2
    /\ itemStatus = <<"EMITTED", "EMITTED">>

\* the list fields of a record
ListFields ==
    {"interestOverTime_timelineData", "interestBySubregion", "interestByCity",
     "interestBy", "relatedTopics_top", "relatedTopics_rising",
     "relatedQueries_top", "relatedQueries_rising"}

\* C17: in every record of the sink each list field is present and is a
\* sequence.
C17_ListFieldsAreSequences ==
    \A n \in 1..Len(sink) :
        \A f \in ListFields : f \in DOMAIN sink[n] /\ IsArr(sink[n][f])

\* the items whose resolved keyword is empty
EmptyKeyword(j) == ~Truthy(ResolveQuery(itemsToProcess[j], config).searchTerm)

\* C18: an item whose resolved keyword is empty is SKIPPED as invalid as soon
\* as it is taken: while it is the current item no request is in flight and
\* makeRequest is not entered, no widget was requested for it, and it never
\* gets a record.
C18_EmptyKeywordRejected ==
    /\ \A j \in DOMAIN itemStatus :
         (EmptyKeyword(j) /\ j <= i) =>
            /\ itemStatus[j] = "SKIPPED"
            /\ skipReason[j] = "invalid"
            /\ fetched[j] = {}
            /\ j = i => /\ inflight = {}
                        /\ made = 0
                        /\ pc \in {"delay", "loop", "done"}
    /\ Len(sink) = Cardinality(Emitted)
    /\ \A j \in DOMAIN itemStatus :
         skipReason[j] = "invalid" => EmptyKeyword(j)

\* C18's case: the first item has an empty keyword and was skipped, the
\* second item has been emitted
C18_Witness ==
    /\ Len(itemsToProcess) = 2
    /\ EmptyKeyword(1)
    /\ skipReason[1] = "invalid"
    /\ itemStatus[2] = "EMITTED"
    /\ Len(sink) = 1

\* the items main has taken from the list so far
Started == {j \in DOMAIN itemStatus : itemStatus[j] # "PENDING"}

\* the input texts of the records of the sink, in order
RECURSIVE TextsOf(_)
TextsOf(records) ==
    IF records = <<>> THEN <<>>
    ELSE <<Head(records).inputUrlOrTerm>> \o TextsOf(Tail(records))

\* the input texts of the emitted items among the first n, in input order
RECURSIVE EmittedTexts(_)
EmittedTexts(n) ==
    IF n = 0 THEN <<>>
    ELSE EmittedTexts(n - 1) \o
            (IF itemStatus[n] = "EMITTED" THEN <<itemsToProcess[n].text>> ELSE <<>>)

\* C22: the items started are an initial part of the item list, within the
\* first maxItems when maxItems > 0; the records are those of the emitted
\* items in input order, at most maxItems of them when maxItems > 0; and when
\* main has returned, the first maxItems items (all items when maxItems = 0)
\* have all been processed.
C22_ItemCapBoundsTheLoop ==
    /\ \A j \in Started : \A k \in 1..j : k \in Started
    /\ maxItems > 0 => \A j \in Started : j <= maxItems
    /\ maxItems > 0 => Len(sink) <= maxItems
    /\ TextsOf(sink) = EmittedTexts(Len(itemsToProcess))
    /\ pc = "done" =>
         \A j \in DOMAIN itemStatus :
            (maxItems = 0 \/ j <= maxItems) => Terminal(j)

\* C22's case: a run of two items with maxItems = 1 has ended, the first item
\* emitted and the second never started
C22_Witness ==
    /\ pc = "done"
    /\ maxItems = 1 /\ Len(itemsToProcess) = 2
    /\ itemStatus[1] = "EMITTED" /\ itemStatus[2] = "PENDING"
    /\ Len(sink) = 1

\* C23: every item within the cap is eventually started, whether the items
\* before it were emitted, invalid, without data, failed at discovery, raised
\* an exception or could not be pushed (an item once started stays started,
\* so eventually all of them are).
C23_FailureNeverAbortsTheRun ==
    <>(\A j \in 1..ProcessLimit : j \in Started)

\* C23's case: the record of the first item could not be pushed and the
\* second item has been started
C23_Witness ==
    /\ Len(itemsToProcess) = 2
    /\ itemStatus[1] = "SKIPPED" /\ skipReason[1] = "push"
    /\ itemStatus[2] = "RESOLVING"

\* C24: a run whose input gives no item ends before the loop, with an exit
\* code other than 0 and without a request.
C24_NoItemsExitsNonZero ==
    (Len(itemsToProcess) = 0 /\ pc = "done") =>
        /\ exitCode # {} /\ 0 \notin exitCode
        /\ i = 0 /\ made = 0 /\ inflight = {}

\* a decoded discovery response without widgets: data.widgets is absent or an
\* empty array (a response that is null has no widgets either)
NoWidgets(data) ==
    \/ Nullish(data)
    \/ ~Truthy(Prop(data, "widgets"))
    \/ Prop(data, "widgets") = EmptyArr

\* C25: when the discovery request returned a decoded response without
\* widgets, the item ends SKIPPED for lack of data at once: no further
\* discovery attempt, no widget request, no record, and the reason is not a
\* failure.
C25_NoWidgetsIsNoData ==
    [][ (pc = "ret" /\ stage = "explore" /\ made > 0 /\ ret.ok /\ NoWidgets(ret.val)) =>
           /\ itemStatus'[i] = "SKIPPED" /\ skipReason'[i] = "nodata"
           /\ pc' \in {"delay", "loop"}
           /\ inflight' = {} /\ fetched'[i] = {}
           /\ sink' = sink ]_vars

\* the fields of the record a stage fills (376-386)
RecordFields(st) ==
    CASE st = "multiline" -> {"interestOverTime_timelineData"}
      [] st = "comparedgeo" -> {"interestBySubregion", "interestByCity", "interestBy"}
      [] st = "topics" -> {"relatedTopics_top", "relatedTopics_rising"}
      [] st = "queries" -> {"relatedQueries_top", "relatedQueries_rising"}

\* the stages whose widget id the discovery response of the current item
\* lacks, the response having some widget
MissingStages ==
    IF i > 0 /\ IsArr(widgets) /\ Len(widgets.v) > 0
    THEN {st \in WidgetStages : WidgetsWithId(WidgetId(st)) = {}}
    ELSE {}

\* C26: for a known widget id that the discovery response of the current
\* item lacks, no request is issued by the fetch of that widget (the two
\* related-searches widgets share one endpoint, so a request is told by the
\* fetch that issues it), the item is not skipped as invalid, without data or
\* failed, and once the item is emitted the fields of its record for that
\* widget are empty sequences.
C26_MissingWidgetGivesEmptySection ==
    \A st \in MissingStages :
        /\ st \notin fetched[i]
        /\ inflight # {} => stage # st
        /\ skipReason[i] \in {"none", "push"}
        /\ itemStatus[i] = "EMITTED" =>
              \A f \in RecordFields(st) : RecordOf(i)[f] = EmptyArr

\* C26's case: an item whose discovery response had no RELATED_TOPICS widget
\* was emitted with its related queries and without related topics
C26_Witness ==
    /\ "topics" \in MissingStages
    /\ itemStatus[i] = "EMITTED"
    /\ "queries" \in fetched[i]
    /\ RecordOf(i).relatedQueries_top # EmptyArr
    /\ RecordOf(i).relatedTopics_top = EmptyArr

Skipped == {j \in DOMAIN itemStatus : itemStatus[j] = "SKIPPED"}

\* C27: when main has returned, the count it reports (successCount, 489) is
\* the number of records in the sink and the number of emitted items, and the
\* emitted and the skipped items together are the processLimit items it
\* reports as processed.
C27_SummaryCountsMatch ==
    pc = "done" =>
        /\ successCount = Len(sink)
        /\ successCount = Cardinality(Emitted)
        /\ Cardinality(Emitted) + Cardinality(Skipped) = ProcessLimit

\* C27's case: a run of two items has ended with one record and one skip
C27_Witness ==
    /\ pc = "done"
    /\ ProcessLimit = 2
    /\ successCount = 1 /\ Len(sink) = 1
    /\ Cardinality(Skipped) = 1

\* C28: whatever the answers to the HTTP attempts are, the run reaches its end
\* with every item within the cap EMITTED or SKIPPED, and an item that is
\* EMITTED or SKIPPED keeps that status: no item is left RESOLVING or
\* FETCHING, and no sequence of failures keeps makeRequest retrying.
C28_EveryItemEndsAndTheRunTerminates ==
    /\ <>(pc = "done" /\ \A j \in 1..ProcessLimit : Terminal(j))
    /\ [][\A j \in DOMAIN itemStatus :
              Terminal(j) => itemStatus'[j] = itemStatus[j]]_vars

\* C28's case: a run of one item, whose answers are not budgeted, has ended
\* after at least MaxDeviations answers that were not nominal, with the item
\* emitted after its four widget requests
C28_Witness ==
    /\ pc = "done"
    /\ ~Budgeted /\ ProcessLimit = 1
    /\ deviations = MaxDeviations
    /\ itemStatus[1] = "EMITTED"
    /\ fetched[1] = WidgetStages

\* C30: an item is started only after the item before it has ended, EMITTED
\* or SKIPPED for whatever reason, and the inter-item delay has been slept
\* after it.
C30_DelayAfterEveryItem ==
    \A j \in Started :
        j > 1 => /\ Terminal(j - 1)
                 /\ delayAfter[j - 1] = InterItemDelayMs
                 /\ delayAfter[j - 1] > 0

\* C30's case: the first item was skipped by a resolver failure, the delay
\* was slept and the second item has been started
C30_Witness ==
    /\ 2 \in Started
    /\ itemStatus[1] = "SKIPPED" /\ skipReason[1] = "resolver"
    /\ delayAfter[1] = InterItemDelayMs

\* the first widget of a discovery result that carries id
FirstWithId(ws, id) ==
    LET at == {m \in 1..Len(ws.v) : Prop(ws.v[m], "id") = JStr(id)}
    IN  ws.v[CHOOSE m \in at : \A k \in at : m <= k]

\* C31: every widget request in flight is of the current item and carries
\* the serialized request payload and the token of one and the same widget,
\* the first of the item's discovery result with the id of the fetch; the
\* discovery result is what the item's own discovery response listed, and it
\* does not change while the item's widgets are fetched.
C31_WidgetRequestCarriesItsWidget ==
    [][ /\ \A r \in WidgetRequests' :
             /\ r.item = i'
             /\ WidgetsWithId(WidgetId(stage))' # {}
             /\ LET w == FirstWithId(widgets', WidgetId(stage'))
                IN  /\ r.req = Stringify(Prop(w, "request"))
                    /\ r.token = Prop(w, "token")
                    /\ Truthy(r.token)
        /\ (pc = "ret" /\ stage = "explore" /\ stage' \in WidgetStages) =>
              /\ i' = i
              /\ widgets' = Prop(ret.val, "widgets")
        /\ (stage \in WidgetStages /\ i' = i) => widgets' = widgets
      ]_vars

\* C31's case: the related-queries request of the second item is in flight
\* with the payload and the token of the fifth widget of its discovery
\* response, whose first TIMESERIES widget carries no token
C31_Witness ==
    /\ i = 2
    /\ widgets = Prop(Docs["WPart"], "widgets")
    /\ inflight = {[item |-> 2, endpoint |-> Endpoint("queries"),
                    req |-> Stringify(ReqPayload("rq2")),
                    token |-> JStr("tok-rq2")]}

---------------------------------------------------------------------------
(* The claims about makeRequest's backoff, checked under SpecFun.          *)

\* whether an answer is a detected block as the specification names it:
\* HTTP 429 or 403, or a page of HTML
BlockedReply(reply) ==
    \/ reply.status \in {403, 429}
    \/ reply.status = 200 /\ FirstNonWsIsLt(reply.body)

\* C29: after failed attempt n with n < maxRetries the catch block retries
\* after BlockedBackoffMs * n ms (5000 * n) when the failure is a detected
\* block (a page of HTML, HTTP 429 or 403) and after PlainBackoffMs * n ms
\* (2000 * n) after any other failure; the first is strictly longer than the
\* second. It fails for a failure that is none of the three and whose
\* message holds the word 'blocked': the wait is 5000 * n.
C29_BackoffGrowsLinearlyLongerWhenBlocked ==
    (FunRan("makeRequest") /\ out.val.failed /\ arg.n < arg.maxRetries) =>
        /\ out.val.retry
        /\ out.val.delay = IF BlockedReply(arg.reply)
                           THEN BlockedBackoffMs * arg.n
                           ELSE PlainBackoffMs * arg.n
        /\ BlockedReply(arg.reply) => out.val.delay > PlainBackoffMs * arg.n

---------------------------------------------------------------------------
(* The claims about processSearchTerm after discovery, checked under       *)
(* SpecFun.                                                                *)

\* the widget ids the fetches look for (353-356)
KnownIds == {JStr(WidgetId(st)) : st \in WidgetStages}

IsKnown(w) == Prop(w, "id") \in KnownIds

\* a discovery result without its widgets of other ids
KnownOnly(ws) == JArr(SelectSeq(ws.v, IsKnown))

\* C32: the requests made and the record of an item are those of the same
\* item whose discovery result lists the widgets with the four known ids
\* only.
C32_UnknownWidgetsChangeNothing ==
    FunRan("processSearchTerm_widgets") =>
        out.val = AfterDiscovery(arg.item, ResolveQuery(arg.item, arg.cfg),
                                 KnownOnly(arg.widgets), arg.answers)

---------------------------------------------------------------------------
(* The claims about the list of items, checked under SpecFun.              *)

\* the places where a comma-separated segment of term begins: 0 and the
\* commas; the segment runs to the next comma or to the end
SegmentEnd(term, a) ==
    CHOOSE b \in (a + 1)..(Len(term) + 1) :
        /\ b = Len(term) + 1 \/ term[b] = ","
        /\ \A p \in (a + 1)..(b - 1) : term[p] # ","

\* the characters of the segment that begins at a which are not whitespace
Inked(term, a) ==
    {p \in (a + 1)..(SegmentEnd(term, a) - 1) : term[p] \notin WS}

\* the non-empty trimmed segments of term, in their order in the term
SegmentsOf(term) ==
    LET starts == {a \in 0..Len(term) :
                      (a = 0 \/ term[a] = ",") /\ Inked(term, a) # {}}
        nth(k) == CHOOSE a \in starts : Cardinality({x \in starts : x < a}) = k - 1
        first(a) == CHOOSE p \in Inked(term, a) : \A q \in Inked(term, a) : p <= q
        last(a) == CHOOSE p \in Inked(term, a) : \A q \in Inked(term, a) : p >= q
    IN  [k \in 1..Cardinality(starts) |->
            SubSeq(term, first(nth(k)), last(nth(k)))]

\* what the claim lets a search term contribute
ExpectedOfTerm(term, isMultiple) ==
    IF isMultiple /\ (\E p \in DOMAIN term : term[p] = ",")
    THEN SegmentsOf(term) ELSE <<term>>

\* the urls of the start URLs that have one
GivenUrls(startUrls) ==
    LET given(u) == (u.k = "str" /\ u.v # <<>>) \/ (u.k = "obj" /\ "url" \in DOMAIN u.v)
        text(u) == IF u.k = "str" THEN u.v ELSE u.v.url.v
        kept == SelectSeq(startUrls, given)
    IN  [n \in DOMAIN kept |-> text(kept[n])]

\* C33: the list of items is, term after term in input order, the non-empty
\* trimmed comma-separated segments of the term when isMultiple is set and
\* the term holds a comma, and the term itself otherwise, followed by the
\* start URLs in input order.
C33_ItemsFromTermsThenUrls ==
    FunRan("main_items") =>
        out.val = Flatten([n \in DOMAIN arg.searchTerms |->
                            ExpectedOfTerm(arg.searchTerms[n], arg.isMultiple)])
                      \o GivenUrls(arg.startUrls)

\* C33's case: with isMultiple, the terms " a ,b " and "a,,b" and a start
\* URL have given five items
C33_Witness ==
    /\ FunRan("main_items")
    /\ arg.isMultiple
    /\ arg.searchTerms = << <<" ", "a", " ", ",", "b", " ">>, <<"a", ",", ",", "b">> >>
    /\ arg.startUrls = << JObj([url |-> JStr(<<"v">>)]) >>
    /\ out.val = << <<"a">>, <<"b">>, <<"a">>, <<"b">>, <<"v">> >>

---------------------------------------------------------------------------
(* The claims about the widget functions run together, checked under       *)
(* SpecPar.                                                                *)

\* makeRequest of main.js (97-135) on the answers to its attempts, from
\* attempt n on
RECURSIVE makeRequestFrom(_, _, _)
makeRequestFrom(answers, n, maxRetries) ==
    IF n > maxRetries THEN Returned(Undefined)
    ELSE LET o == AttemptOutcome(answers[n])
         IN  IF o.ok THEN o
             ELSE IF MayRetry(n, maxRetries)
             THEN makeRequestFrom(answers, n + 1, maxRetries)
             ELSE o

\* the record processSearchTerm of main.js builds, one fetch after the other
\* (358-387), for the same discovery result and the same answers
SequentialRecord ==
    AfterDiscovery(arg.item, ResolveQuery(arg.item, arg.cfg), arg.widgets,
                   [st \in WidgetStages |->
                       makeRequestFrom(arg.script[st], 1, arg.maxRetries)]).record

\* C34: whatever the interleaving of the four widget functions and of their
\* retries, the record built after Promise.all is the record of the
\* sequential fetches for the same answers, and each function has made the
\* requests it makes on its own.
C34_ConcurrentFetchesGiveTheSequentialRecord ==
    (arg.fn = "processSearchTerm_parallel" /\ out # NotRun) =>
        /\ out.val = SequentialRecord
        /\ \A st \in WidgetStages :
             frames[st].made <= arg.maxRetries

\* C34's case: with two attempts allowed, the timeline fetch failed once and
\* succeeded, the geo fetch failed twice, and the record has been built
C34_Witness ==
    /\ arg.fn = "processSearchTerm_parallel" /\ out # NotRun
    /\ arg.maxRetries = 2
    /\ frames["multiline"].made = 2 /\ frames["comparedgeo"].made = 2
    /\ out.val.interestOverTime_timelineData # EmptyArr
    /\ out.val.interestBy = EmptyArr
    /\ out.val.relatedQueries_top # EmptyArr

---------------------------------------------------------------------------
(* The claims about the response listener, checked under SpecCapture.      *)

\* top and rising as the response to the request of widget w gives them,
\* empty when it cannot be decoded
RelatedFrom(w) ==
    LET f == CapturedField(arg.bodies[w], "rankedList")
    IN  IF f.ok THEN cap_Classify(f.val) ELSE cap_Classify(JNull)

\* C35: the relatedTopics fields of the record are those of the response to
\* the RELATED_TOPICS request, or empty when that response was not read in
\* time or not decoded; the relatedQueries fields likewise of the response
\* to the RELATED_QUERIES request; in whatever order the two are read.
C35_RelatedFieldsFollowTheirWidget ==
    (arg.fn = "responseHandler" /\ out # NotRun) =>
        /\ [top |-> out.val.relatedTopics_top, rising |-> out.val.relatedTopics_rising]
              \in {RelatedFrom("topics"), cap_Classify(JNull)}
        /\ [top |-> out.val.relatedQueries_top, rising |-> out.val.relatedQueries_rising]
              \in {RelatedFrom("queries"), cap_Classify(JNull)}

---------------------------------------------------------------------------
(* The claims about the requests of one item, checked under Spec.          *)

\* the makeRequest calls one item can need: the discovery call and one per
\* known widget id (347, 361-370)
CallsPerItem == 1 + Cardinality(WidgetStages)

\* the most HTTP attempts one makeRequest call issues: the loop of line 97
\* runs maxRetries times, and not at all when maxRetries is below 1
AttemptsPerCall == IF maxRequestRetries > 0 THEN maxRequestRetries ELSE 0

\* C36: for one item at most five makeRequest calls are entered, the
\* discovery call and at most one per known widget id whatever the discovery
\* response lists, and each call issues at most maxRequestRetries HTTP
\* attempts, so the item issues at most 5 * maxRequestRetries of them.
\* A maxRequestRetries below 1 stands for no attempt.
C36_AtMostFiveCallsPerItem ==
    /\ CallsPerItem = 5
    /\ calls <= CallsPerItem
    /\ calls <= 1 + Cardinality({st \in WidgetStages :
                                   Fetchable(FindWidget(widgets, WidgetId(st)))})
    /\ made <= AttemptsPerCall
    /\ attempts <= calls * AttemptsPerCall
    /\ attempts <= 5 * AttemptsPerCall
    /\ \A j \in Items : fetched[j] \subseteq WidgetStages

\* C36's case: the fifth call of an item is at its second attempt, and so
\* was every call before it: ten attempts with maxRequestRetries = 2
C36_Witness ==
    /\ maxRequestRetries = 2
    /\ stage = "queries" /\ pc = "await"
    /\ calls = 5 /\ attempts = 10

\* C37: makeRequest waits only between attempts. A backoff delay is pending
\* exactly while the call stands between a failed attempt that was not the
\* last and the next attempt; attempt n of a call is issued after n - 1
\* backoffs; a successful attempt returns at once, and the failure of
\* attempt maxRequestRetries is raised at once.
C37_OneBackoffBetweenAttempts ==
    [][ /\ (backoffDelay' > 0) <=> (pc' = "backoff")
        /\ (pc' = "backoff") =>
              /\ pc = "await" /\ fails' = fails + 1
              /\ attempt' = attempt /\ attempt < maxRequestRetries
        /\ (pc = "backoff") =>
              /\ pc' = "attempt" /\ attempt' = attempt + 1
              /\ made' = made /\ inflight' = inflight
        /\ (pc' = "attempt" /\ attempt' > 1) => pc = "backoff"
        /\ (pc = "attempt" /\ pc' = "await") =>
              /\ made' = made + 1 /\ made' = attempt
              /\ inflight' = {CurrentRequest}
        /\ (pc = "await") =>
              /\ pc' \in {"ret", "backoff"}
              /\ pc' = "ret" =>
                    /\ backoffDelay' = 0
                    /\ ret'.ok \/ (attempt = maxRequestRetries /\ fails' = attempt)
      ]_vars

\* C37's case: the second and last attempt of a call failed after one
\* backoff, and the failure is raised with no delay pending
C37_Witness ==
    /\ pc = "ret" /\ ~ret.ok
    /\ maxRequestRetries = 2 /\ made = 2 /\ fails = 2
    /\ backoffDelay = 0

\* whether item j has a non-empty search term (330)
HasKeyword(j) == Truthy(ResolveQuery(itemsToProcess[j], config).searchTerm)

\* C38: with maxRequestRetries = 0 or negative no HTTP attempt is ever
\* issued; no item is fetched for or emitted, every item with a non-empty
\* search term that main has left is SKIPPED, no record is pushed, and the
\* run goes through every item within the cap and exits with code 0.
C38_NoAttemptsSkipsEveryItem ==
    maxRequestRetries <= 0 =>
        /\ made = 0 /\ attempts = 0 /\ inflight = {}
        /\ sink = <<>> /\ successCount = 0
        /\ \A j \in Items :
              /\ fetched[j] = {}
              /\ itemStatus[j] \in {"PENDING", "RESOLVING", "SKIPPED"}
              /\ (HasKeyword(j) /\ (j < i \/ (j = i /\ Awaited(pc)) \/ pc = "done")
                    /\ j <= ProcessLimit)
                    => itemStatus[j] = "SKIPPED"
        /\ exitCode \subseteq {ExitCodeOf(FALSE)}
        /\ pc = "done" => i = ProcessLimit

\* C38's case: a run of two items with a search term and maxRequestRetries
\* = 0 has ended, both items SKIPPED on the discovery call's missing value
C38_Witness ==
    /\ maxRequestRetries = 0
    /\ pc = "done" /\ i = 2
    /\ HasKeyword(1) /\ HasKeyword(2)
    /\ itemStatus = <<"SKIPPED", "SKIPPED">>
    /\ skipReason = <<"exception", "exception">>
    /\ attempts = 0 /\ sink = <<>>

============================================================================
